---- MODULE Spec2Model ----
(***************************************************************************)
(* Credit-metered SMS relay (server.js).  The file holds two deployment   *)
(* variants of the same server: the SMSeem variant (lines 1-784) and the  *)
(* Mobivate variant (lines 786-1414).  The variant is a deployment        *)
(* constant of a behaviour, chosen in Init.                                *)
(*                                                                         *)
(* Strings are sequences of UTF-16 code units (naturals).  A JSON value   *)
(* of a request body is a record [t, s, a]: t is its JavaScript type,     *)
(* s the code units of a string, a the elements of an array of strings.   *)
(***************************************************************************)
EXTENDS Integers, Sequences, FiniteSets, TLC

VARIABLES cfg, store, now, slots, last, ops, windowHits, req

vars == <<cfg, store, now, slots, last, ops, windowHits, req>>

-----------------------------------------------------------------------------
(* JavaScript values and string helpers *)

Str(s) == [t |-> "str", s |-> s, a |-> <<>>]
Undef == [t |-> "undef", s |-> <<>>, a |-> <<>>]
\* a non-zero number; s holds its String() form
NumV == [t |-> "num", s |-> <<55>>, a |-> <<>>]
Arr(a) == [t |-> "arr", s |-> <<>>, a |-> a]

Rep(c, n) == [i \in 1..n |-> c]

IsWs(c) == c \in {9, 10, 11, 12, 13, 32, 160}

IsDigit(c) == c \in 48..57

RECURSIVE TrimStart(_)
TrimStart(s) ==
  IF s # <<>> /\ IsWs(Head(s)) THEN TrimStart(Tail(s)) ELSE s

RECURSIVE TrimEnd(_)
TrimEnd(s) ==
  IF s # <<>> /\ IsWs(s[Len(s)]) THEN TrimEnd(SubSeq(s, 1, Len(s) - 1)) ELSE s

Trim(s) == TrimEnd(TrimStart(s))

ToLowerCase(s) == [i \in DOMAIN s |-> IF s[i] \in 65..90 THEN s[i] + 32 ELSE s[i]]

StartsWith(s, p) == Len(s) >= Len(p) /\ SubSeq(s, 1, Len(p)) = p

Includes(list, x) == \E i \in DOMAIN list : list[i] = x

\* s.slice(0, n) of a string
Slice(s, n) == SubSeq(s, 1, IF Len(s) < n THEN Len(s) ELSE n)

\* Array.from(new Set(list)): first occurrences, in insertion order
RECURSIVE Dedup(_)
\* mutant: duplicates are kept
Dedup_Keep(list) == list

Dedup(list) ==
  IF list = <<>> THEN <<>>
  ELSE LET front == Dedup(SubSeq(list, 1, Len(list) - 1))
           x == list[Len(list)]
       IN IF Includes(front, x) THEN front ELSE Append(front, x)

\* truthiness of a JSON value
Truthy(v) == v.t \in {"num", "arr"} \/ (v.t = "str" /\ v.s # <<>>)

isNonEmptyString(v) == v.t = "str" /\ Len(Trim(v.s)) > 0

\* input.replace(/\D/g, '')
DigitsOf(s) == SelectSeq(s, IsDigit)

normalizeMsisdn(s) ==
  LET digits == DigitsOf(s)
  IN IF Len(digits) < 8 \/ Len(digits) > 15 THEN <<>> ELSE digits

S972 == <<57, 55, 50>>

convertToIsraeliFormat(s) ==
  LET digits == DigitsOf(s)
      local == SubSeq(digits, 4, Len(digits))
  IN IF StartsWith(digits, S972) /\ Len(local) = 9 THEN <<48>> \o local
     ELSE IF StartsWith(digits, <<48>>) /\ Len(digits) >= 9 THEN digits
     ELSE <<>>

\* /^972-?\d{9}$/
Matches972(s) ==
  /\ StartsWith(s, S972)
  /\ LET rest == SubSeq(s, 4, Len(s))
         body == IF rest # <<>> /\ Head(rest) = 45 THEN Tail(rest) ELSE rest
     IN Len(body) = 9 /\ \A i \in 1..9 : IsDigit(body[i])

\* /^0\d{8,9}$/
MatchesLocal(s) ==
  /\ Len(s) \in {9, 10}
  /\ s[1] = 48
  /\ \A i \in 2..Len(s) : IsDigit(s[i])

\* recipients.split(/[\s,;]+/)
IsSep(c) == IsWs(c) \/ c \in {44, 59}

RECURSIVE SplitFrom(_, _, _)
SplitFrom(s, i, cur) ==
  IF i > Len(s) THEN <<cur>>
  ELSE IF IsSep(s[i])
       THEN IF i > 1 /\ IsSep(s[i - 1]) THEN SplitFrom(s, i + 1, cur)
            ELSE <<cur>> \o SplitFrom(s, i + 1, <<>>)
       ELSE SplitFrom(s, i + 1, Append(cur, s[i]))

Split(s) == SplitFrom(s, 1, <<>>)

-----------------------------------------------------------------------------
(* Credit calculator *)

IsEmojiCode(code) ==
  \/ code >= 128512 /\ code <= 128591
  \/ code >= 127744 /\ code <= 128511
  \/ code >= 128640 /\ code <= 128767
  \/ code >= 127456 /\ code <= 127487
  \/ code >= 9728 /\ code <= 9983
  \/ code >= 9984 /\ code <= 10175
  \/ code >= 65024 /\ code <= 65039
  \/ code >= 129280 /\ code <= 129535
  \/ code >= 127000 /\ code <= 127221

CharWeight(code) ==
  IF IsEmojiCode(code) THEN 3 ELSE IF code > 127 THEN 2 ELSE 1

\* the loop's sum of the per-character weights, taken weight class by class
WeightedLength(text) ==
  LET idx(w) == {i \in DOMAIN text : CharWeight(text[i]) = w}
  IN 3 * Cardinality(idx(3)) + 2 * Cardinality(idx(2)) + Cardinality(idx(1))

\* mutant: the first tier ends below 30
BaseCredits_Strict(weightedLength) ==
  IF weightedLength < 30 THEN 2
  ELSE IF weightedLength <= 50 THEN 4
  ELSE IF weightedLength <= 70 THEN 6
  ELSE IF weightedLength <= 90 THEN 8
  ELSE IF weightedLength <= 110 THEN 10
  ELSE IF weightedLength <= 130 THEN 12
  ELSE IF weightedLength <= 150 THEN 14
  ELSE IF weightedLength <= 170 THEN 16
  ELSE IF weightedLength <= 190 THEN 18
  ELSE IF weightedLength <= 200 THEN 20
  ELSE -1

BaseCredits(weightedLength) ==
  IF weightedLength <= 30 THEN 2
  ELSE IF weightedLength <= 50 THEN 4
  ELSE IF weightedLength <= 70 THEN 6
  ELSE IF weightedLength <= 90 THEN 8
  ELSE IF weightedLength <= 110 THEN 10
  ELSE IF weightedLength <= 130 THEN 12
  ELSE IF weightedLength <= 150 THEN 14
  ELSE IF weightedLength <= 170 THEN 16
  ELSE IF weightedLength <= 190 THEN 18
  ELSE IF weightedLength <= 200 THEN 20
  ELSE -1

SCal == <<99, 97, 108>>

\* mutant: the sender is compared with 'cal' as it is written
calculateCreditsForMessage_CaseSensitive(message, sender) ==
  LET text == IF Truthy(message) THEN message.s ELSE <<>>
      base == BaseCredits(WeightedLength(text))
  IN IF Len(text) <= 0 THEN [throws |-> FALSE, v |-> 0]
     ELSE IF base < 0 THEN [throws |-> FALSE, v |-> -1]
     ELSE IF ~Truthy(sender) THEN [throws |-> FALSE, v |-> base]
     ELSE IF sender.t # "str" THEN [throws |-> TRUE, v |-> 0]
     ELSE IF sender.s = <<99, 97, 108>> THEN [throws |-> FALSE, v |-> base + 3]
     ELSE [throws |-> FALSE, v |-> base]

\* Result [throws, v]: throws when sender is a truthy non-string (it has no
\* toLowerCase), which the code reaches only after the length checks.
calculateCreditsForMessage(message, sender) ==
  LET text == IF Truthy(message) THEN message.s ELSE <<>>
      base == BaseCredits(WeightedLength(text))
  IN IF Len(text) <= 0 THEN [throws |-> FALSE, v |-> 0]
     ELSE IF base < 0 THEN [throws |-> FALSE, v |-> -1]
     ELSE IF ~Truthy(sender) THEN [throws |-> FALSE, v |-> base]
     ELSE IF sender.t # "str" THEN [throws |-> TRUE, v |-> 0]
     ELSE IF ToLowerCase(sender.s) = SCal THEN [throws |-> FALSE, v |-> base + 3]
     ELSE [throws |-> FALSE, v |-> base]

-----------------------------------------------------------------------------
(* Ledger store (data.json) *)

DayMs == 24 * 60 * 60 * 1000

\* the rate limiter of /api/sms: requests per window, and the window
RateMax == 60
WindowMs == 60000

NoDate == [k |-> "null"]
\* a date is held as whole days since the epoch and milliseconds within the
\* day, so that dates a month ahead stay within the integers of the model
IsoDate(ms) == [k |-> "iso", day |-> ms \div DayMs, ms |-> ms % DayMs]
BadDate == [k |-> "bad"]

SIsracard == <<105, 115, 114, 97, 99, 97, 114, 100>>

\* The parsed file.  The file is only ever written by this server, so the
\* defaulting of malformed fields reduces to the dueDate that is no string.
readStore(file) ==
  IF file.dueDate.k \in {"null", "iso", "bad"} THEN file
  ELSE [file EXCEPT !.dueDate = NoDate]

\* mutant: the write replaces the file by the update and drops the logs
writeStore_DropLogs(file, update) ==
  [f \in DOMAIN file |->
     IF f \in DOMAIN update THEN update[f]
     ELSE IF f = "logs" THEN <<>> ELSE readStore(file)[f]]

writeStore(file, update) ==
  [f \in DOMAIN file |-> IF f \in DOMAIN update THEN update[f] ELSE readStore(file)[f]]

LogCap == 1000
DeliveryCap == 2000

\* { time: new Date().toISOString(), ...entry }
Stamp(t, entry) ==
  [f \in DOMAIN entry \cup {"time"} |-> IF f \in DOMAIN entry THEN entry[f] ELSE t]

\* mutant: the log is never truncated
appendLog_NoCap(file, t, entry) ==
  [readStore(file) EXCEPT !.logs = <<Stamp(t, entry)>> \o @]

appendLog(file, t, entry) ==
  LET data == readStore(file)
      logs == <<Stamp(t, entry)>> \o data.logs
  IN [data EXCEPT !.logs = IF Len(logs) > LogCap THEN SubSeq(logs, 1, LogCap) ELSE logs]

appendDelivery(file, t, entry) ==
  LET data == readStore(file)
      ds == <<Stamp(t, entry)>> \o data.deliveries
  IN [data EXCEPT !.deliveries =
        IF Len(ds) > DeliveryCap THEN SubSeq(ds, 1, DeliveryCap) ELSE ds]

\* mutant: the expiry check is skipped
computeIsExpired_Off(st, t) == FALSE

\* mutant: expired from the last millisecond of the due day on
computeIsExpired_Inclusive(st, t) ==
  IF st.dueDate.k # "iso" THEN FALSE
  ELSE LET endDay == st.dueDate.day + 1
           endMs == st.dueDate.ms - 1
       IN t \div DayMs > endDay \/ (t \div DayMs = endDay /\ t % DayMs >= endMs)
          \/ (endMs < 0 /\ t \div DayMs = endDay - 1 /\ t % DayMs = DayMs - 1)

computeIsExpired(st, t) ==
  IF st.dueDate.k # "iso" THEN FALSE
  ELSE LET endDay == st.dueDate.day + 1
           endMs == st.dueDate.ms - 1
       IN t \div DayMs > endDay \/ (t \div DayMs = endDay /\ t % DayMs > endMs)

\* SMSeem variant: the stored list, or the default when the field is absent
getBlockedSenders(st) ==
  IF st.hasBlocked THEN st.blockedSenders ELSE <<SIsracard>>

\* Mobivate variant: a constant list
BLOCKED_SENDERS == <<SIsracard>>

\* mutant: the stored list is ignored, only the default name is blocked
BlockedList_DefaultOnly(c, st) == <<SIsracard>>

BlockedList(c, st) ==
  IF c.variant = "smseem" THEN getBlockedSenders(st) ELSE BLOCKED_SENDERS


-----------------------------------------------------------------------------
(* Dispatch orchestrator: the synchronous gates of the two send handlers.  *)
(* A gate list holds, in the order of the code's early returns, whether    *)
(* the gate refuses the request and the response it returns.               *)

\* mutant: the last failing gate answers instead of the first
FirstFail_Last(gates) ==
  IF \E i \in DOMAIN gates : gates[i].fail
  THEN CHOOSE i \in DOMAIN gates :
         gates[i].fail /\ \A j \in (i + 1)..Len(gates) : ~gates[j].fail
  ELSE 0

FirstFail(gates) ==
  IF \E i \in DOMAIN gates : gates[i].fail
  THEN CHOOSE i \in DOMAIN gates : gates[i].fail /\ \A j \in 1..(i - 1) : ~gates[j].fail
  ELSE 0

PhoneRegexOk(c, to) ==
  IF c.variant = "smseem" THEN Matches972(to.s) \/ MatchesLocal(to.s)
  ELSE Matches972(to.s)

NormalizeRecipient(c, s) ==
  IF c.variant = "smseem" THEN convertToIsraeliFormat(s) ELSE normalizeMsisdn(s)

SingleGates(c, st, t, body) ==
  LET mc == calculateCreditsForMessage(body.message, body.sender)
  IN << [fail |-> computeIsExpired(readStore(st), t), status |-> 402, error |-> "expired"],
        [fail |-> ~isNonEmptyString(body.to) \/ ~PhoneRegexOk(c, body.to),
         status |-> 400, error |-> "phone_format"],
        [fail |-> ~isNonEmptyString(body.message), status |-> 400, error |-> "missing_message"],
        [fail |-> mc.throws, status |-> 502, error |-> "type_error"],
        [fail |-> mc.v = 0, status |-> 400, error |-> "message_empty"],
        [fail |-> mc.v < 0, status |-> 400, error |-> "message_too_long"],
        [fail |-> ~isNonEmptyString(body.sender), status |-> 400, error |-> "missing_sender"],
        [fail |-> Includes(BlockedList(c, readStore(st)), ToLowerCase(body.sender.s)),
         status |-> 400, error |-> "sender_blocked"],
        [fail |-> NormalizeRecipient(c, body.to.s) = <<>>,
         status |-> 400, error |-> "invalid_phone"],
        [fail |-> c.variant = "smseem" /\ ~c.apiKey, status |-> 500, error |-> "no_api_key"] >>

\* list.map(trim).filter(Boolean).map(normalize).filter(Boolean), then the Set
RecipientList(recipients) ==
  IF recipients.t = "arr" THEN recipients.a
  ELSE IF isNonEmptyString(recipients) THEN Split(recipients.s)
  ELSE <<>>

RECURSIVE NormalizeAll(_, _)
NormalizeAll(c, list) ==
  IF list = <<>> THEN <<>>
  ELSE LET v == Trim(Head(list))
           n == IF v = <<>> THEN <<>> ELSE NormalizeRecipient(c, v)
       IN (IF n = <<>> THEN <<>> ELSE <<n>>) \o NormalizeAll(c, Tail(list))

UniqueRecipients(c, recipients) == Dedup(NormalizeAll(c, RecipientList(recipients)))

TotalNeeded(uniqueRecipients, msgCredits) == Len(uniqueRecipients) * msgCredits

\* mutant: off by one, a batch may overdraw the balance by one credit
InsufficientCredits_OffByOne(credits, totalNeeded) == credits + 1 < totalNeeded

InsufficientCredits(credits, totalNeeded) == credits < totalNeeded

BatchGates(c, st, t, body) ==
  LET mc == calculateCreditsForMessage(body.message, body.sender)
      uniq == UniqueRecipients(c, body.recipients)
      data == readStore(st)
      totalNeeded == TotalNeeded(uniq, mc.v)
  IN << [fail |-> computeIsExpired(data, t), status |-> 402, error |-> "expired"],
        [fail |-> ~isNonEmptyString(body.sender), status |-> 400, error |-> "missing_sender"],
        [fail |-> Includes(BlockedList(c, data), ToLowerCase(body.sender.s)),
         status |-> 400, error |-> "sender_blocked"],
        [fail |-> ~isNonEmptyString(body.message), status |-> 400, error |-> "missing_message"],
        [fail |-> mc.throws, status |-> 500, error |-> "type_error"],
        [fail |-> mc.v = 0, status |-> 400, error |-> "message_empty"],
        [fail |-> mc.v < 0, status |-> 400, error |-> "message_too_long"],
        [fail |-> body.recipients.t # "arr" /\ ~isNonEmptyString(body.recipients),
         status |-> 400, error |-> "recipients_required"],
        [fail |-> uniq = <<>>, status |-> 400, error |-> "no_valid_recipients"],
        [fail |-> InsufficientCredits(data.credits, totalNeeded), status |-> 402,
         error |-> "insufficient_credits", needed |-> totalNeeded, perMessage |-> mc.v,
         recipients |-> Len(uniq), credits |-> data.credits],
        [fail |-> c.variant = "smseem" /\ ~c.apiKey, status |-> 500, error |-> "no_api_key"] >>

\* the response a failing gate returns: the gate without its "fail" field
Refusal(gate) == [f \in DOMAIN gate \ {"fail"} |-> gate[f]]


-----------------------------------------------------------------------------
(* Inputs *)

MaxOps == 2
MaxOverReport == 1

SPhoneIntl == <<57, 55, 50, 53, 48, 49, 50, 51, 52, 53, 54, 55>>
SPhoneDash == <<57, 55, 50, 45, 53, 48, 49, 50, 51, 52, 53, 54, 55>>
SPhoneLocal == <<48, 53, 48, 49, 50, 51, 52, 53, 54, 55>>
SPhoneDashes == <<57, 55, 50, 45, 53, 48, 45, 49, 50, 51, 52, 53, 54, 55>>
SPhoneOther == <<57, 55, 50, 53, 50, 49, 50, 51, 52, 53, 54, 55>>
SPhoneShort == <<49, 50, 51, 52, 53>>
SHi == <<72, 105>>
SAb == <<65, 98>>
SCalMixed == <<67, 97, 108>>
SIsracardUpper == <<73, 83, 82, 65, 67, 65, 82, 68>>

Slots == {1, 2}

Idle == [pc |-> "idle"]
NoResponse == [kind |-> "none"]

\* carrier outcomes of one HTTP call: a 2xx body of one of three shapes, a
\* non-2xx status, or no response at all (timeout, network error)
HttpError == [k |-> "http", status |-> 503]
NetworkError == [k |-> "network"]
CallFailures == {HttpError, NetworkError}
SingleReplies ==
  {[k |-> "error"], [k |-> "success", messageId |-> <<109, 49>>], [k |-> "other"]} \cup CallFailures

RECURSIVE Pick(_, _, _)
Pick(list, S, i) ==
  IF i > Len(list) THEN <<>>
  ELSE (IF i \in S THEN <<list[i]>> ELSE <<>>) \o Pick(list, S, i + 1)

\* the `sent` counts a carrier reports for a batch of Len(uniq) numbers
SentReports(uniq) == 0..(Len(uniq) + MaxOverReport)

BatchReplies(uniq) ==
  {[k |-> "error"], [k |-> "other"]} \cup CallFailures \cup
  {[k |-> "success", sent |-> n, failed |-> Cardinality(S), failedNumbers |-> Pick(uniq, S, 1)] :
     n \in SentReports(uniq), S \in SUBSET DOMAIN uniq}

-----------------------------------------------------------------------------
(* POST /api/sms/send *)

Respond(kind, body, resp, calls) ==
  [kind |-> kind, body |-> body, resp |-> resp, calls |-> calls]

\* a new request takes the lowest free slot
FreeSlot(r) == slots[r] = Idle /\ \A j \in Slots : j < r => slots[j] # Idle

SingleSend(bodies) ==
  /\ ops < MaxOps
  /\ ops' = ops + 1
  /\ \E r \in Slots, body \in bodies :
       /\ FreeSlot(r)
       /\ LET gates == SingleGates(cfg, store, now, body)
              i == FirstFail(gates)
          IN IF i # 0
             THEN /\ last' = Respond("single", body, Refusal(gates[i]), 0)
                  /\ UNCHANGED slots
             ELSE /\ slots' = [slots EXCEPT ![r] =
                       [pc |-> "await", kind |-> "single", body |-> body,
                        msgCredits |-> calculateCreditsForMessage(body.message, body.sender).v,
                        uniq |-> <<NormalizeRecipient(cfg, body.to.s)>>,
                        originator |-> Trim(body.sender.s),
                        calls |-> 1]]
                  /\ UNCHANGED last
  /\ UNCHANGED <<cfg, store, now>>

\* the response the handler makes of the carrier's answer
SingleOutcome(c, q, reply) ==
  IF reply.k = "http" THEN [status |-> reply.status, error |-> "upstream"]
  ELSE IF reply.k = "network" THEN [status |-> 502, error |-> "gateway"]
  ELSE IF c.variant = "mobivate"
       THEN [status |-> 200, ok |-> TRUE, creditsUsed |-> q.msgCredits]
  ELSE IF reply.k = "error" THEN [status |-> 400, error |-> "provider_error"]
  ELSE IF reply.k = "success"
       THEN [status |-> 200, ok |-> TRUE, messageId |-> reply.messageId,
             creditsUsed |-> q.msgCredits]
  ELSE [status |-> 502, error |-> "unexpected_format"]

SingleLogEntry(q, reply) ==
  [type |-> "single_send", sender |-> q.body.sender.s, recipient |-> q.uniq[1],
   messageId |-> reply.messageId, status |-> "sent", msgLen |-> Len(q.body.message.s),
   msgCredits |-> q.msgCredits, messagePreview |-> Slice(q.body.message.s, 40)]

\* mutant: a successful single send is charged like a batch recipient
SingleStoreAfter_Deduct(c, st, t, q, reply) ==
  IF reply.k \in {"error", "success", "other"}
  THEN writeStore(st, [credits |-> readStore(st).credits - q.msgCredits])
  ELSE st

\* only the SMSeem variant logs a single send, and only on success
SingleStoreAfter(c, st, t, q, reply) ==
  IF c.variant = "smseem" /\ reply.k = "success"
  THEN appendLog(st, t, SingleLogEntry(q, reply))
  ELSE st

SingleReply(r, reply) ==
  /\ slots[r] # Idle
  /\ slots[r].kind = "single"
  /\ store' = SingleStoreAfter(cfg, store, now, slots[r], reply)
  /\ last' = Respond("single", slots[r].body, SingleOutcome(cfg, slots[r], reply),
                     slots[r].calls)
  /\ slots' = [slots EXCEPT ![r] = Idle]
  /\ UNCHANGED <<cfg, now, ops, windowHits, req>>

-----------------------------------------------------------------------------
(* POST /api/sms/send-batch *)

\* mutant: the calls for all recipients are issued at once
IssuedAtDispatch_Parallel(c, uniq) == Len(uniq)

\* carrier calls issued before the handler first awaits: the one batched
\* call (SMSeem), or the call for the first recipient (Mobivate)
IssuedAtDispatch(c, uniq) == 1

BatchSend(bodies) ==
  /\ ops < MaxOps
  /\ ops' = ops + 1
  /\ \E r \in Slots, body \in bodies :
       /\ FreeSlot(r)
       /\ LET gates == BatchGates(cfg, store, now, body)
              i == FirstFail(gates)
          IN IF i # 0
             THEN /\ last' = Respond("batch", body, Refusal(gates[i]), 0)
                  /\ UNCHANGED slots
             ELSE /\ slots' = [slots EXCEPT ![r] =
                       [pc |-> "await", kind |-> "batch", body |-> body,
                        msgCredits |-> calculateCreditsForMessage(body.message, body.sender).v,
                        uniq |-> UniqueRecipients(cfg, body.recipients),
                        originator |-> Trim(body.sender.s),
                        credits |-> readStore(store).credits,
                        results |-> <<>>, success |-> 0,
                        calls |-> IssuedAtDispatch(cfg, UniqueRecipients(cfg, body.recipients))]]
                  /\ UNCHANGED last
  /\ UNCHANGED <<cfg, store, now>>

\* mutant: the deduction re-reads the ledger instead of using the snapshot
BalanceBase_Fresh(st, q) == readStore(st).credits

\* `store.credits` of the deduction: the snapshot taken at the balance check,
\* before the handler awaited the carrier
BalanceBase(st, q) == q.credits

\* mutant: the entry records the balance read at the balance check
BatchLogEntry_Stale(q, success, used, after) ==
  [type |-> "batch_send", sender |-> q.body.sender.s, count |-> Len(q.uniq),
   success |-> success, msgLen |-> Len(q.body.message.s), msgCredits |-> q.msgCredits,
   totalCreditsUsed |-> used, messagePreview |-> Slice(q.body.message.s, 40),
   creditsAfter |-> q.credits]

BatchLogEntry(q, success, used, after) ==
  [type |-> "batch_send", sender |-> q.body.sender.s, count |-> Len(q.uniq),
   success |-> success, msgLen |-> Len(q.body.message.s), msgCredits |-> q.msgCredits,
   totalCreditsUsed |-> used, messagePreview |-> Slice(q.body.message.s, 40),
   creditsAfter |-> after]

\* SMSeem: one call for the whole batch; credits follow the reported `sent`
SmseemCreditsUsed(q, reply) == reply.sent * q.msgCredits

SmseemResults(q, reply) ==
  LET okNumbers == SelectSeq(q.uniq, LAMBDA n : ~Includes(reply.failedNumbers, n))
  IN [i \in DOMAIN okNumbers |->
        [recipient |-> okNumbers[i], ok |-> TRUE, creditsUsed |-> q.msgCredits]]
     \o [i \in DOMAIN reply.failedNumbers |->
        [recipient |-> reply.failedNumbers[i], ok |-> FALSE, error |-> "failed_to_send"]]

\* mutant: a reply reporting failed numbers is answered as an overall error
SmseemBatchOutcome_FailOnPartial(st, q, reply) ==
  IF reply.k = "success" /\ reply.failed = 0
  THEN [status |-> 200, ok |-> TRUE, attempted |-> Len(q.uniq), success |-> reply.sent,
        failed |-> 0, failedNumbers |-> <<>>, perMessage |-> q.msgCredits,
        totalUsed |-> reply.sent * q.msgCredits,
        credits |-> q.credits - reply.sent * q.msgCredits, results |-> <<>>]
  ELSE [status |-> 502, error |-> "partial_failure"]

SmseemBatchOutcome(st, q, reply) ==
  IF reply.k = "http" THEN [status |-> reply.status, error |-> "upstream"]
  ELSE IF reply.k = "network" THEN [status |-> 502, error |-> "gateway"]
  ELSE IF reply.k = "error" THEN [status |-> 400, error |-> "provider_error"]
  ELSE IF reply.k = "success"
       THEN [status |-> 200, ok |-> TRUE, attempted |-> Len(q.uniq),
             success |-> reply.sent, failed |-> reply.failed,
             failedNumbers |-> reply.failedNumbers, perMessage |-> q.msgCredits,
             totalUsed |-> SmseemCreditsUsed(q, reply),
             credits |-> BalanceBase(st, q) - SmseemCreditsUsed(q, reply),
             results |-> SmseemResults(q, reply)]
  ELSE [status |-> 502, error |-> "unexpected_format"]

\* mutant: the batch is charged in full before the carrier's answer is read
SmseemStoreAfter_ChargeFirst(st, t, q, reply) ==
  LET charged == writeStore(st, [credits |-> q.credits - Len(q.uniq) * q.msgCredits])
  IN IF reply.k = "success"
     THEN appendLog(charged, t,
            BatchLogEntry(q, reply.sent, Len(q.uniq) * q.msgCredits, charged.credits)
              @@ [failed |-> reply.failed])
     ELSE charged

SmseemStoreAfter(st, t, q, reply) ==
  IF reply.k = "success"
  THEN LET used == SmseemCreditsUsed(q, reply)
           after == writeStore(st, [credits |-> BalanceBase(st, q) - used])
       IN appendLog(after, t,
            BatchLogEntry(q, reply.sent, used, after.credits) @@ [failed |-> reply.failed])
  ELSE st

\* mutant: the handler reads the carrier's answer and returns without
\* responding
BatchReplySmseem_NoResponse(r) ==
  /\ cfg.variant = "smseem"
  /\ slots[r] # Idle
  /\ slots[r].kind = "batch"
  /\ slots[r].pc = "await"
  /\ slots' = [slots EXCEPT ![r].pc = "returned"]
  /\ UNCHANGED <<cfg, store, now, last, ops, windowHits, req>>

BatchReplySmseem(r) ==
  /\ cfg.variant = "smseem"
  /\ slots[r] # Idle
  /\ slots[r].kind = "batch"
  /\ \E reply \in BatchReplies(slots[r].uniq) :
       /\ store' = SmseemStoreAfter(store, now, slots[r], reply)
       /\ last' = [reply |-> reply] @@
                     Respond("batch", slots[r].body,
                             SmseemBatchOutcome(store, slots[r], reply), slots[r].calls)
  /\ slots' = [slots EXCEPT ![r] = Idle]
  /\ UNCHANGED <<cfg, now, ops, windowHits, req>>

\* Mobivate: one call per recipient, in order; the reply to call k records
\* recipient k's result and issues call k+1, or ends the loop
MobivateResult(q, reply) ==
  IF reply = "ok"
  THEN [recipient |-> q.uniq[Len(q.results) + 1], ok |-> TRUE, creditsUsed |-> q.msgCredits]
  ELSE [recipient |-> q.uniq[Len(q.results) + 1], ok |-> FALSE, error |-> reply]

MobivateCreditsUsed(q) == TotalNeeded(q.uniq, q.msgCredits)

MobivateStoreAfter(st, t, q) ==
  LET used == MobivateCreditsUsed(q)
      after == writeStore(st, [credits |-> BalanceBase(st, q) - used])
  IN appendLog(after, t, BatchLogEntry(q, q.success, used, after.credits))

MobivateBatchOutcome(st, q) ==
  [status |-> 200, ok |-> TRUE, attempted |-> Len(q.uniq), success |-> q.success,
   perMessage |-> q.msgCredits, totalUsed |-> MobivateCreditsUsed(q),
   credits |-> BalanceBase(st, q) - MobivateCreditsUsed(q), results |-> q.results]

\* mutant: the loop stops at the first failed recipient
LoopDone_AbortOnFailure(q) ==
  Len(q.results) >= Len(q.uniq) \/ ~q.results[Len(q.results)].ok

\* for (const recipient of uniqueRecipients): no recipient is left
LoopDone(q) == Len(q.results) >= Len(q.uniq)

BatchReplyMobivate(r, reply) ==
  /\ cfg.variant = "mobivate"
  /\ slots[r] # Idle
  /\ slots[r].kind = "batch"
  /\ LET q == [slots[r] EXCEPT
                 !.results = Append(@, MobivateResult(slots[r], reply)),
                 !.success = IF reply = "ok" THEN @ + 1 ELSE @]
     IN IF ~LoopDone(q)
        THEN /\ slots' = [slots EXCEPT ![r] = [q EXCEPT !.calls = @ + 1]]
             /\ UNCHANGED <<store, last>>
        ELSE /\ store' = MobivateStoreAfter(store, now, q)
             /\ last' = Respond("batch", q.body, MobivateBatchOutcome(store, q), q.calls)
             /\ slots' = [slots EXCEPT ![r] = Idle]
  /\ UNCHANGED <<cfg, now, ops, windowHits, req>>

-----------------------------------------------------------------------------
(* Admin routes and the receipt webhook *)

\* JSON values of req.body.credits.  A number is held as twice its value, so
\* that halves (4.5) are representable; 1e999 parses to Infinity.
Num(n2) == [t |-> "num", s |-> <<>>, a |-> <<>>, finite |-> TRUE, n2 |-> n2]
NumInfinity == [t |-> "num", s |-> <<>>, a |-> <<>>, finite |-> FALSE, n2 |-> 0]
Null == [t |-> "null", s |-> <<>>, a |-> <<>>]
Bool(b) == [t |-> "bool", s |-> <<>>, a |-> <<>>, b |-> b]
Obj == [t |-> "obj", s |-> <<>>, a |-> <<>>]

NaN == [finite |-> FALSE, n2 |-> 0]

RECURSIVE DecimalValue(_)
DecimalValue(digits) ==
  IF digits = <<>> THEN 0
  ELSE 10 * DecimalValue(SubSeq(digits, 1, Len(digits) - 1)) + (digits[Len(digits)] - 48)

\* Number(string), for strings of blanks, signs, digits and letters: the
\* blank string is 0, a signed run of digits its value, and any other such
\* string is not finite (NaN, or an infinity)
StringToNumber(s) ==
  LET t == Trim(s)
      signed == t # <<>> /\ t[1] \in {43, 45}
      body == IF signed THEN Tail(t) ELSE t
  IN IF t = <<>> THEN [finite |-> TRUE, n2 |-> 0]
     ELSE IF body # <<>> /\ \A i \in DOMAIN body : IsDigit(body[i])
     THEN [finite |-> TRUE,
           n2 |-> IF t[1] = 45 THEN 0 - 2 * DecimalValue(body) ELSE 2 * DecimalValue(body)]
     ELSE NaN

\* Number(value) as [finite, n2]; an array converts as its elements joined
\* by commas, an object as "[object Object]"
Number(v) ==
  IF v.t = "num" THEN [finite |-> v.finite, n2 |-> v.n2]
  ELSE IF v.t = "null" THEN [finite |-> TRUE, n2 |-> 0]
  ELSE IF v.t = "bool" THEN [finite |-> TRUE, n2 |-> IF v.b THEN 2 ELSE 0]
  ELSE IF v.t = "str" THEN StringToNumber(v.s)
  ELSE IF v.t = "arr" /\ Len(v.a) = 0 THEN StringToNumber(<<>>)
  ELSE IF v.t = "arr" /\ Len(v.a) = 1 THEN StringToNumber(v.a[1])
  ELSE NaN

\* Math.floor of a number held as twice its value is n2 \div 2
CreditsSet(credits) ==
  /\ ops < MaxOps
  /\ ops' = ops + 1
  /\ LET num == Number(credits)
     IN IF ~num.finite \/ num.n2 < 0
        THEN /\ last' = Respond("credits_set", credits,
                                [status |-> 400, error |-> "bad_credits"], 0)
             /\ UNCHANGED store
        ELSE LET after == writeStore(store, [credits |-> num.n2 \div 2])
             IN /\ store' = appendLog(after, now,
                               [type |-> "set_credits", creditsAfter |-> after.credits])
                /\ last' = Respond("credits_set", credits,
                                   [status |-> 200, ok |-> TRUE, credits |-> after.credits], 0)
  /\ UNCHANGED <<cfg, now, slots>>

\* parseDateInput: a parsable date as its epoch milliseconds, else "bad"
DueDateSet(v) ==
  /\ ops < MaxOps
  /\ ops' = ops + 1
  /\ IF v.k # "iso"
     THEN /\ last' = Respond("due_date_set", v, [status |-> 400, error |-> "bad_date"], 0)
          /\ UNCHANGED store
     ELSE LET after == writeStore(store, [dueDate |-> v])
          IN /\ store' = appendLog(after, now, [type |-> "set_due_date", dueDate |-> v])
             /\ last' = Respond("due_date_set", v,
                                [status |-> 200, ok |-> TRUE, dueDate |-> after.dueDate], 0)
  /\ UNCHANGED <<cfg, now, slots>>

\* time passes; the limiter's window ends WindowMs after it began
Tick(t) ==
  /\ t > now
  /\ now' = t
  /\ windowHits' = IF t - now >= WindowMs THEN 0 ELSE windowHits
  /\ UNCHANGED <<cfg, store, slots, last, ops, req>>


ToUpperCase(s) == [i \in DOMAIN s |-> IF s[i] \in 97..122 THEN s[i] - 32 ELSE s[i]]

\* logs.find(...): the first (newest) batch_send entry younger than 24 hours
\* mutant: the newest entry younger than 24 hours, whatever its type
MatchingLog_AnyType(logs, t) ==
  LET hits == {i \in DOMAIN logs : logs[i].time > t - DayMs}
  IN IF hits = {} THEN 0 ELSE CHOOSE i \in hits : \A j \in hits : i <= j

MatchingLog(logs, t) ==
  LET hits == {i \in DOMAIN logs : logs[i].type = "batch_send" /\ logs[i].time > t - DayMs}
  IN IF hits = {} THEN 0 ELSE CHOOSE i \in hits : \A j \in hits : i <= j

\* mutant: the receipt is recorded whatever fields it carries
ReceiptStoreAfter_Always(st, t, body) ==
  appendDelivery(st, t,
    [type |-> "delivery_receipt", messageId |-> body.messageId.s,
     status |-> ToUpperCase(body.status.s), recipient |-> body.recipient.s,
     timestamp |-> t])

\* mutant: the backfill stamps the newest entry sent to the receipt's recipient
ReceiptStoreAfter_Keyed(st, t, body) ==
  IF Truthy(body.messageId) /\ Truthy(body.status) /\ Truthy(body.recipient)
  THEN LET data == appendDelivery(st, t,
                     [type |-> "delivery_receipt", messageId |-> body.messageId.s,
                      status |-> ToUpperCase(body.status.s),
                      recipient |-> body.recipient.s, timestamp |-> t])
           hits == {i \in DOMAIN data.logs :
                      /\ "recipient" \in DOMAIN data.logs[i]
                      /\ data.logs[i].recipient = body.recipient.s}
       IN IF hits = {} THEN data
          ELSE LET i == CHOOSE i \in hits : \A j \in hits : i <= j
               IN [data EXCEPT !.logs[i] =
                     [deliveryStatus |-> ToUpperCase(body.status.s), deliveryTime |-> t] @@ @]
  ELSE st

ReceiptStoreAfter(st, t, body) ==
  IF Truthy(body.messageId) /\ Truthy(body.status) /\ Truthy(body.recipient)
  THEN LET data == appendDelivery(st, t,
                     [type |-> "delivery_receipt", messageId |-> body.messageId.s,
                      status |-> ToUpperCase(body.status.s),
                      recipient |-> body.recipient.s, timestamp |-> t])
           i == MatchingLog(data.logs, t)
       IN IF i = 0 THEN data
          ELSE [data EXCEPT !.logs[i] =
                  [deliveryStatus |-> ToUpperCase(body.status.s), deliveryTime |-> t] @@ @]
  ELSE st

Receipt(body) ==
  /\ ops < MaxOps
  /\ ops' = ops + 1
  /\ store' = ReceiptStoreAfter(store, now, body)
  /\ last' = Respond("receipt", body, [status |-> 200], 0)
  /\ UNCHANGED <<cfg, now, slots>>

-----------------------------------------------------------------------------
(* Middleware: the rate limiter on /api/sms, the proxy key and the role   *)
(* credentials of the x-auth header                                        *)

\* the requests of one client address counted in the current window
Limited(route) == route \in {"single", "batch", "receipt", "incoming", "click"}

KeyGated(route) == route \in {"single", "batch"}

RoleOf(route) ==
  IF route \in {"single", "batch"} THEN "office"
  ELSE IF route \in {"receipt", "incoming", "click"} THEN "none"
  ELSE "admin"

\* the Mobivate deployment has no blocked-senders routes
Served(c, route) ==
  c.variant = "smseem" \/ route \notin {"blocked_set", "blocked_add", "blocked_remove"}

\* requireProxyKey, of the x-api-key header
requireProxyKey(c, key) == c.proxyKey = <<>> \/ key = Str(c.proxyKey)

\* s.split(' ')
RECURSIVE SplitSpaces(_, _, _)
SplitSpaces(s, i, cur) ==
  IF i > Len(s) THEN <<cur>>
  ELSE IF s[i] = 32 THEN <<cur>> \o SplitSpaces(s, i + 1, <<>>)
       ELSE SplitSpaces(s, i + 1, Append(cur, s[i]))

\* the six bits a base64 character stands for, -1 for any other character
Base64Value(c) ==
  IF c \in 65..90 THEN c - 65
  ELSE IF c \in 97..122 THEN c - 71
  ELSE IF c \in 48..57 THEN c + 4
  ELSE IF c \in {43, 45} THEN 62
  ELSE IF c \in {47, 95} THEN 63
  ELSE -1

\* Buffer.from(b64, 'base64').toString(): the characters up to the padding,
\* those outside the alphabet skipped, regrouped from six bits into bytes
Base64Decode(b64) ==
  LET pads == {i \in DOMAIN b64 : b64[i] = 61}
      stop == IF pads = {} THEN Len(b64) + 1 ELSE CHOOSE i \in pads : \A j \in pads : i <= j
      chars == SelectSeq(SubSeq(b64, 1, stop - 1), LAMBDA c : Base64Value(c) >= 0)
      n == (Len(chars) * 6) \div 8
      Byte(k) ==
        LET o == (k - 1) * 8
            j == o \div 6 + 1
            v == Base64Value(chars[j]) * 64 + Base64Value(chars[j + 1])
        IN (v \div (2 ^ (4 - (o % 6)))) % 256
  IN [k \in 1..n |-> IF Byte(k) < 128 THEN Byte(k) ELSE 65533]

\* creds.indexOf(':'), counted from 0
IndexOfColon(s) ==
  LET at == {i \in DOMAIN s : s[i] = 58}
  IN IF at = {} THEN -1 ELSE (CHOOSE i \in at : \A j \in at : i <= j) - 1

\* s.slice(from, to), a negative `to` counted from the end
SliceBetween(s, from, to) ==
  LET end == IF to < 0 THEN (IF Len(s) + to < 0 THEN 0 ELSE Len(s) + to)
             ELSE IF to > Len(s) THEN Len(s) ELSE to
  IN SubSeq(s, from + 1, end)

SBasic == <<66, 97, 115, 105, 99>>

\* mutant: either role's pair opens either role's routes
requireRoleAuth_AnyRole(c, role, hdr) ==
  LET parts == SplitSpaces(IF hdr.t = "str" THEN hdr.s ELSE <<>>, 1, <<>>)
  IN /\ parts[1] = <<66, 97, 115, 105, 99>> /\ Len(parts) >= 2 /\ parts[2] # <<>>
     /\ LET creds == Base64Decode(parts[2])
            i == IndexOfColon(creds)
            pair == [user |-> SliceBetween(creds, 0, i),
                     pass |-> SliceBetween(creds, i + 1, Len(creds))]
        IN pair \in {c.admin, c.office}

\* whether the middleware calls next()
requireRoleAuth(c, role, hdr) ==
  LET parts == SplitSpaces(IF Truthy(hdr) THEN hdr.s ELSE <<>>, 1, <<>>)
      scheme == parts[1]
      b64 == IF Len(parts) >= 2 THEN parts[2] ELSE <<>>
  IN /\ scheme = SBasic /\ b64 # <<>>
     /\ LET creds == Base64Decode(b64)
            i == IndexOfColon(creds)
            user == SliceBetween(creds, 0, i)
            pass == SliceBetween(creds, i + 1, Len(creds))
        IN \/ role = "admin" /\ user = c.admin.user /\ pass = c.admin.pass
           \/ role = "office" /\ user = c.office.user /\ pass = c.office.pass

NoRequest == [route |-> "none"]

\* a request answered by the middleware: the handler does not run
Blocked(route, status, error) ==
  /\ ops < MaxOps
  /\ ops' = ops + 1
  /\ last' = Respond(route, Undef, [status |-> status, error |-> error], 0)
  /\ UNCHANGED <<cfg, store, now, slots>>

\* a request the middleware has passed on, the limiter's count left aside
Admitted(Handler) == Handler /\ UNCHANGED <<windowHits, req>>

\* a request on its way to the handler of its route: the limiter counts it
\* and refuses it beyond the maximum, then the route's guards run in order.
\* The count is held at the maximum, beyond which every request is refused.
Via(route, hdr, key, Handler) ==
  /\ ops < MaxOps
  /\ Served(cfg, route)
  /\ req' = [route |-> route, xauth |-> hdr, key |-> key]
  /\ windowHits' = IF Limited(route) /\ windowHits < RateMax THEN windowHits + 1 ELSE windowHits
  /\ IF Limited(route) /\ windowHits >= RateMax
     THEN Blocked(route, 429, "too_many_requests")
     ELSE IF KeyGated(route) /\ ~requireProxyKey(cfg, key)
     THEN Blocked(route, 401, "unauthorized")
     ELSE IF RoleOf(route) # "none" /\ ~requireRoleAuth(cfg, RoleOf(route), hdr)
     THEN Blocked(route, 401, "unauthorized")
     ELSE Handler

-----------------------------------------------------------------------------
(* Further admin routes and webhooks *)

\* The calendar of Date: the day number of 1 January of year y, the lengths
\* of the months of y, and the day number of day d of month m of y, where m
\* and d may run past the end of the year and of the month (MakeDay)
DayFromYear(y) ==
  365 * (y - 1970) + ((y - 1969) \div 4) - ((y - 1901) \div 100) + ((y - 1601) \div 400)

MonthLengths(y) ==
  <<31, DayFromYear(y + 1) - DayFromYear(y) - 337, 31, 30, 31, 30, 31, 31, 30, 31, 30, 31>>

RECURSIVE DayFromMonth(_, _)
DayFromMonth(y, m) == IF m <= 1 THEN 0 ELSE DayFromMonth(y, m - 1) + MonthLengths(y)[m - 1]

MakeDay(y, m, d) ==
  LET ym == y + ((m - 1) \div 12)
      mn == ((m - 1) % 12) + 1
  IN DayFromYear(ym) + DayFromMonth(ym, mn) + d - 1

Years == 1969..2100

\* getFullYear(), getMonth() + 1 and getDate() of a day number
DateFromDay(day) ==
  LET y == CHOOSE k \in Years : DayFromYear(k) <= day /\ day < DayFromYear(k + 1)
      m == CHOOSE k \in 1..12 : MakeDay(y, k, 1) <= day /\ day < MakeDay(y, k + 1, 1)
  IN [y |-> y, m |-> m, d |-> day - MakeDay(y, m, 1) + 1]

\* the local time zones of the server, as offsets from UTC: New York in
\* winter, UTC, Jerusalem in winter
HourMs == 60 * 60 * 1000
ZoneOffsets == {0 - 5 * HourMs, 0, 2 * HourMs}

\* getDate, setMonth and setDate read and write the date in the server's
\* local time, which is UTC shifted by c.tz
addOneMonth(c, date) ==
  LET t == date.ms + c.tz
      localDay == date.day + (t \div DayMs)
      d == DateFromDay(localDay)
      day == d.d
      \* d.setMonth(d.getMonth() + 1): a day past the month's end rolls over
      set == MakeDay(d.y, d.m + 1, day)
      rolled == DateFromDay(set)
      \* if (d.getDate() < day) d.setDate(0): the last day of the month before
      next == IF rolled.d < day THEN MakeDay(rolled.y, rolled.m, 0) ELSE set
      u == (t % DayMs) - c.tz
  IN [date EXCEPT !.day = next + (u \div DayMs), !.ms = u % DayMs]

RenewMonth ==
  /\ ops < MaxOps
  /\ ops' = ops + 1
  /\ LET st == readStore(store)
         base == IF st.dueDate.k = "null" THEN IsoDate(now) ELSE st.dueDate
     IN IF base.k # "iso"
        THEN /\ last' = Respond("renew_month", Undef,
                                [status |-> 400, error |-> "stored_due_date_invalid"], 0)
             /\ UNCHANGED store
        ELSE LET iso == addOneMonth(cfg, base)
                 after == writeStore(store, [dueDate |-> iso])
             IN /\ store' = appendLog(after, now,
                               [type |-> "renew_month", oldDueDate |-> st.dueDate,
                                newDueDate |-> iso])
                /\ last' = Respond("renew_month", Undef,
                                   [status |-> 200, ok |-> TRUE, dueDate |-> after.dueDate], 0)
  /\ UNCHANGED <<cfg, now, slots>>

\* /^[a-z0-9_-]+$/
IsSenderName(s) ==
  s # <<>> /\ \A i \in DOMAIN s : s[i] \in (97..122) \cup (48..57) \cup {95, 45}

BlockedSendersSet(body) ==
  /\ cfg.variant = "smseem"
  /\ ops < MaxOps
  /\ ops' = ops + 1
  /\ IF body.blockedSenders.t # "arr"
     THEN /\ last' = Respond("blocked_set", body, [status |-> 400, error |-> "not_an_array"], 0)
          /\ UNCHANGED store
     ELSE LET names == [i \in DOMAIN body.blockedSenders.a |->
                          ToLowerCase(Trim(body.blockedSenders.a[i]))]
              validSenders == SelectSeq(names,
                                LAMBDA s : Len(s) > 0 /\ Len(s) <= 20 /\ IsSenderName(s))
              after == writeStore(store, [hasBlocked |-> TRUE, blockedSenders |-> validSenders])
          IN /\ store' = appendLog(after, now,
                            [type |-> "set_blocked_senders", blockedSenders |-> validSenders])
             /\ last' = Respond("blocked_set", body,
                                [status |-> 200, ok |-> TRUE,
                                 blockedSenders |-> after.blockedSenders], 0)
  /\ UNCHANGED <<cfg, now, slots>>

BlockedSendersAdd(body) ==
  /\ cfg.variant = "smseem"
  /\ ops < MaxOps
  /\ ops' = ops + 1
  /\ LET normalizedSender == ToLowerCase(Trim(body.sender.s))
         currentBlocked == getBlockedSenders(readStore(store))
     IN IF ~isNonEmptyString(body.sender)
        THEN /\ last' = Respond("blocked_add", body,
                                [status |-> 400, error |-> "sender_required"], 0)
             /\ UNCHANGED store
        ELSE IF Len(normalizedSender) > 20 \/ ~IsSenderName(normalizedSender)
        THEN /\ last' = Respond("blocked_add", body,
                                [status |-> 400, error |-> "invalid_sender_name"], 0)
             /\ UNCHANGED store
        ELSE IF Includes(currentBlocked, normalizedSender)
        THEN /\ last' = Respond("blocked_add", body,
                                [status |-> 400, error |-> "already_blocked"], 0)
             /\ UNCHANGED store
        ELSE LET after == writeStore(store,
                            [hasBlocked |-> TRUE,
                             blockedSenders |-> Append(currentBlocked, normalizedSender)])
             IN /\ store' = appendLog(after, now,
                               [type |-> "add_blocked_sender", sender |-> normalizedSender])
                /\ last' = Respond("blocked_add", body,
                                   [status |-> 200, ok |-> TRUE,
                                    blockedSenders |-> after.blockedSenders], 0)
  /\ UNCHANGED <<cfg, now, slots>>

BlockedSendersRemove(body) ==
  /\ cfg.variant = "smseem"
  /\ ops < MaxOps
  /\ ops' = ops + 1
  /\ LET normalizedSender == ToLowerCase(Trim(body.sender.s))
         currentBlocked == getBlockedSenders(readStore(store))
         newBlocked == SelectSeq(currentBlocked, LAMBDA s : s # normalizedSender)
     IN IF ~isNonEmptyString(body.sender)
        THEN /\ last' = Respond("blocked_remove", body,
                                [status |-> 400, error |-> "sender_required"], 0)
             /\ UNCHANGED store
        ELSE IF Len(newBlocked) = Len(currentBlocked)
        THEN /\ last' = Respond("blocked_remove", body,
                                [status |-> 400, error |-> "not_blocked"], 0)
             /\ UNCHANGED store
        ELSE LET after == writeStore(store,
                            [hasBlocked |-> TRUE, blockedSenders |-> newBlocked])
             IN /\ store' = appendLog(after, now,
                               [type |-> "remove_blocked_sender", sender |-> normalizedSender])
                /\ last' = Respond("blocked_remove", body,
                                   [status |-> 200, ok |-> TRUE,
                                    blockedSenders |-> after.blockedSenders], 0)
  /\ UNCHANGED <<cfg, now, slots>>

\* GET /api/logs and GET /api/deliveries: the newest 200 entries
PageSize == 200

Logs ==
  /\ ops < MaxOps
  /\ ops' = ops + 1
  /\ last' = Respond("logs", Undef,
                     [status |-> 200, ok |-> TRUE,
                      logs |-> Slice(readStore(store).logs, PageSize)], 0)
  /\ UNCHANGED <<cfg, store, now, slots>>

Deliveries ==
  /\ ops < MaxOps
  /\ ops' = ops + 1
  /\ last' = Respond("deliveries", Undef,
                     [status |-> 200, ok |-> TRUE,
                      deliveries |-> Slice(readStore(store).deliveries, PageSize)], 0)
  /\ UNCHANGED <<cfg, store, now, slots>>

\* POST /api/sms/incoming and POST /api/sms/click: logged to the console
Incoming(body) ==
  /\ ops < MaxOps
  /\ ops' = ops + 1
  /\ last' = Respond("incoming", body, [status |-> 200], 0)
  /\ UNCHANGED <<cfg, store, now, slots>>

Click(body) ==
  /\ ops < MaxOps
  /\ ops' = ops + 1
  /\ last' = Respond("click", body, [status |-> 200], 0)
  /\ UNCHANGED <<cfg, store, now, slots>>

-----------------------------------------------------------------------------
(* Specifications *)

SAdmin == <<97, 100>>
SAdminPass == <<120>>
SOffice == <<111, 102>>
SOfficePass == <<121>>

\* the two roles hold different pairs, no proxy key is set and the server's
\* local time is UTC
Credentials ==
  [admin |-> [user |-> SAdmin, pass |-> SAdminPass],
   office |-> [user |-> SOffice, pass |-> SOfficePass], proxyKey |-> <<>>, tz |-> 0]

Configs ==
  {Credentials @@ c :
     c \in {[variant |-> "smseem", apiKey |-> TRUE], [variant |-> "smseem", apiKey |-> FALSE],
            [variant |-> "mobivate", apiKey |-> TRUE]}}

\* x-auth headers: Basic YWQ6eA== (ad:x) and Basic b2Y6eQ== (of:y)
XAuthAdmin == Str(<<66, 97, 115, 105, 99, 32, 89, 87, 81, 54, 101, 65, 61, 61>>)
XAuthOffice == Str(<<66, 97, 115, 105, 99, 32, 98, 50, 89, 54, 101, 81, 61, 61>>)

EmptyStore(credits, dueDate) ==
  [credits |-> credits, dueDate |-> dueDate, hasBlocked |-> FALSE, blockedSenders |-> <<>>,
   logs |-> <<>>, deliveries |-> <<>>]

Instants == {0, DayMs}

\* Spec: well-formed requests of two concurrent clients and the admin
InitCredits == 4

SingleBodiesOk == {[to |-> Str(SPhoneIntl), message |-> Str(SHi), sender |-> Str(SAb)]}

BatchBodiesOk ==
  {[sender |-> Str(SAb), message |-> Str(SHi), recipients |-> Arr(rs)] :
     rs \in {<<SPhoneIntl>>, <<SPhoneIntl, SPhoneDash, SPhoneOther>>}}

\* 0 and 4.5
CreditsInputs == {Num(0), Num(9)}

SDelivered == <<111, 107>>
ReceiptBodies ==
  {[messageId |-> Str(<<109>>), status |-> Str(SDelivered), recipient |-> Str(SPhoneIntl)]}

Init ==
  /\ cfg \in {c \in Configs : c.apiKey}
  /\ store = EmptyStore(InitCredits, NoDate)
  /\ now = 0
  /\ slots = [r \in Slots |-> Idle]
  /\ last = NoResponse
  /\ ops = 0
  /\ windowHits = 0
  /\ req = NoRequest

Next ==
  \/ Admitted(SingleSend(SingleBodiesOk))
  \/ \E r \in Slots, reply \in SingleReplies : SingleReply(r, reply)
  \/ Admitted(BatchSend(BatchBodiesOk))
  \/ \E r \in Slots : BatchReplySmseem(r)
  \/ \E r \in Slots, reply \in {"ok", "http", "network"} : BatchReplyMobivate(r, reply)
  \/ \E v \in CreditsInputs : Admitted(CreditsSet(v))
  \/ \E v \in {IsoDate(0)} : Admitted(DueDateSet(v))
  \/ \E body \in ReceiptBodies : Admitted(Receipt(body))
  \/ \E t \in Instants : Tick(t)

Spec == Init /\ [][Next]_vars


\* SpecGates: any request body, handled from any of a set of ledger states

SRecipientsText ==
  SPhoneIntl \o <<44, 32>> \o SPhoneLocal \o <<59>> \o SPhoneDash

ToInputs == {Undef, Str(SPhoneIntl), Str(SPhoneDash), Str(SPhoneLocal), Str(SPhoneShort)}

\* U+2600 weighs 3: 11 of them weigh 33 (4 credits), 67 weigh 201 (too long)
MessageInputs == {Undef, Str(<<32>>), Str(SHi), Str(Rep(9728, 11)), Str(Rep(9728, 67))}

SenderInputs == {Undef, NumV, Str(<<32>>), Str(SAb), Str(SCalMixed), Str(SIsracardUpper)}

RecipientsInputs ==
  {Undef, Str(SRecipientsText), Arr(<<SPhoneIntl, SPhoneDash>>),
   Arr(<<SPhoneIntl, SPhoneOther>>), Arr(<<SPhoneShort>>),
   Arr(<<SPhoneIntl, SPhoneLocal, SPhoneDashes, SPhoneShort>>)}

SingleBodies == [to : ToInputs, message : MessageInputs, sender : SenderInputs]

BatchBodies == [sender : SenderInputs, message : MessageInputs, recipients : RecipientsInputs]

GateLedgers ==
  {[EmptyStore(c, d) EXCEPT !.hasBlocked = b.has, !.blockedSenders = b.list] :
     c \in {0, 4, 9}, d \in {NoDate, IsoDate(0)},
     b \in {[has |-> FALSE, list |-> <<>>], [has |-> TRUE, list |-> <<ToLowerCase(SAb)>>]}}

\* each behaviour handles one request
InitGates ==
  /\ cfg \in Configs
  /\ store \in GateLedgers
  /\ now \in Instants
  /\ slots = [r \in Slots |-> Idle]
  /\ last = NoResponse
  /\ ops = MaxOps - 1
  /\ windowHits = 0
  /\ req = NoRequest

NextGates ==
  \/ Admitted(SingleSend(SingleBodies))
  \/ \E r \in Slots, reply \in SingleReplies : SingleReply(r, reply)
  \/ Admitted(BatchSend(BatchBodies))
  \/ \E r \in Slots : BatchReplySmseem(r)
  \/ \E r \in Slots, reply \in {"ok", "http", "network"} : BatchReplyMobivate(r, reply)

SpecGates == InitGates /\ [][NextGates]_vars


\* SpecLedger: one or two requests on a ledger whose logs and deliveries are
\* at, or one entry below, their caps

\* the history of n entries: a single send, two batches, and before them
\* credit updates, the oldest of which set the balance to 0, the next to 1, ...
HistoryLog(n, i) ==
  IF i = 1
  THEN Stamp(0, [type |-> "single_send", sender |-> SAb, recipient |-> SPhoneLocal,
                 messageId |-> <<109, 48>>, status |-> "sent", msgLen |-> Len(SHi),
                 msgCredits |-> 2, messagePreview |-> SHi])
  ELSE IF i \in {2, 3}
  THEN Stamp(0, [type |-> "batch_send", sender |-> SAb, count |-> 1, success |-> 1,
                 msgLen |-> Len(SHi), msgCredits |-> 2, totalCreditsUsed |-> 2,
                 messagePreview |-> SHi, creditsAfter |-> InitCredits + 2 * (i - 2)])
  ELSE Stamp(0, [type |-> "set_credits", creditsAfter |-> n - i])

HistoryDelivery(i) ==
  Stamp(0, [type |-> "delivery_receipt", messageId |-> <<109>>,
            status |-> ToUpperCase(SDelivered), recipient |-> SPhoneIntl, timestamp |-> i])

LedgerStores ==
  {[EmptyStore(InitCredits, NoDate) EXCEPT
      !.logs = [i \in 1..n |-> HistoryLog(n, i)],
      !.deliveries = [i \in 1..m |-> HistoryDelivery(i)]] :
     n \in {LogCap - 1, LogCap}, m \in {DeliveryCap - 1, DeliveryCap}}

ReceiptBodiesAll ==
  [messageId : {Undef, Str(<<109>>), Str(<<109, 48>>)},
   status : {Undef, Str(<<>>), Str(SDelivered)},
   recipient : {Undef, Str(SPhoneIntl), Str(SPhoneLocal)}]

InitLedger ==
  /\ cfg \in {c \in Configs : c.apiKey}
  /\ store \in LedgerStores
  /\ now \in Instants
  /\ slots = [r \in Slots |-> Idle]
  /\ last = NoResponse
  /\ ops = MaxOps - 1
  /\ windowHits = 0
  /\ req = NoRequest

NextLedger ==
  \/ Admitted(SingleSend(SingleBodiesOk))
  \/ \E r \in Slots, reply \in SingleReplies : SingleReply(r, reply)
  \/ Admitted(BatchSend(BatchBodiesOk))
  \/ \E r \in Slots : BatchReplySmseem(r)
  \/ \E r \in Slots, reply \in {"ok", "http", "network"} : BatchReplyMobivate(r, reply)
  \/ \E v \in CreditsInputs : Admitted(CreditsSet(v))
  \/ \E v \in {IsoDate(0)} : Admitted(DueDateSet(v))
  \/ \E body \in ReceiptBodiesAll : Admitted(Receipt(body))

SpecLedger == InitLedger /\ [][NextLedger]_vars


\* SpecAccess: one request on any route, with any x-auth and x-api-key
\* header, under any credential configuration, early or late in the
\* limiter's window

\* neither pair configured; one pair for both roles; a password that is the
\* user name and one more character
CredentialSets ==
  {[admin |-> Credentials.admin, office |-> Credentials.office],
   [admin |-> [user |-> <<>>, pass |-> <<>>], office |-> [user |-> <<>>, pass |-> <<>>]],
   [admin |-> Credentials.admin, office |-> Credentials.admin],
   [admin |-> [user |-> <<97>>, pass |-> <<97, 98>>], office |-> Credentials.office]}

SProxyKey == <<107>>

AccessConfigs ==
  {[variant |-> v, apiKey |-> TRUE, admin |-> cs.admin, office |-> cs.office, proxyKey |-> k,
    tz |-> 0] :
     v \in {"smseem", "mobivate"}, cs \in CredentialSets, k \in {<<>>, SProxyKey}}

\* Bearer YWQ6eA==, Basic, Basic Og== (:), Basic YWI= (ab), Basic YWQ6eQ== (ad:y)
XAuthBearer == Str(<<66, 101, 97, 114, 101, 114, 32, 89, 87, 81, 54, 101, 65, 61, 61>>)
XAuthNoToken == Str(SBasic)
XAuthEmptyPair == Str(<<66, 97, 115, 105, 99, 32, 79, 103, 61, 61>>)
XAuthNoColon == Str(<<66, 97, 115, 105, 99, 32, 89, 87, 73, 61>>)
XAuthWrongPass == Str(<<66, 97, 115, 105, 99, 32, 89, 87, 81, 54, 101, 81, 61, 61>>)

XAuthInputs ==
  {Undef, XAuthAdmin, XAuthOffice, XAuthBearer, XAuthNoToken, XAuthEmptyPair, XAuthNoColon,
   XAuthWrongPass}

KeyInputs == {Undef, Str(SProxyKey)}

WebhookBodies ==
  {b \in ReceiptBodiesAll : b.messageId # Str(<<109>>) /\ b.recipient # Str(SPhoneLocal)}

BlockedSetBodies ==
  {[blockedSenders |-> Undef], [blockedSenders |-> Arr(<<SCalMixed, <<32>>, SAb>>)]}

BlockedSenderBodies == {[sender |-> Undef], [sender |-> Str(SIsracardUpper)], [sender |-> Str(SAb)]}

AccessLedgers ==
  {EmptyStore(InitCredits, NoDate),
   [EmptyStore(InitCredits, [IsoDate(0) EXCEPT !.day = 30]) EXCEPT
      !.hasBlocked = TRUE, !.blockedSenders = <<ToLowerCase(SAb)>>]}

InitAccess ==
  /\ cfg \in AccessConfigs
  /\ store \in AccessLedgers
  /\ now = 0
  /\ slots = [r \in Slots |-> Idle]
  /\ last = NoResponse
  /\ ops = MaxOps - 1
  /\ windowHits \in {0, RateMax - 1, RateMax}
  /\ req = NoRequest

NextAccess ==
  \/ \E hdr \in XAuthInputs, key \in KeyInputs :
       \/ Via("single", hdr, key, SingleSend(SingleBodiesOk))
       \/ Via("batch", hdr, key, BatchSend(BatchBodiesOk))
       \/ \E v \in CreditsInputs : Via("credits_set", hdr, key, CreditsSet(v))
       \/ \E v \in {IsoDate(0)} : Via("due_date_set", hdr, key, DueDateSet(v))
       \/ Via("renew_month", hdr, key, RenewMonth)
       \/ \E body \in BlockedSetBodies : Via("blocked_set", hdr, key, BlockedSendersSet(body))
       \/ \E body \in BlockedSenderBodies : Via("blocked_add", hdr, key, BlockedSendersAdd(body))
       \/ \E body \in BlockedSenderBodies :
            Via("blocked_remove", hdr, key, BlockedSendersRemove(body))
       \/ Via("logs", hdr, key, Logs)
       \/ Via("deliveries", hdr, key, Deliveries)
       \/ \E body \in WebhookBodies : Via("receipt", hdr, key, Receipt(body))
       \/ \E body \in WebhookBodies : Via("incoming", hdr, key, Incoming(body))
       \/ \E body \in WebhookBodies : Via("click", hdr, key, Click(body))
  \/ \E r \in Slots, reply \in SingleReplies : SingleReply(r, reply)
  \/ \E r \in Slots : BatchReplySmseem(r)
  \/ \E r \in Slots, reply \in {"ok", "http", "network"} : BatchReplyMobivate(r, reply)

SpecAccess == InitAccess /\ [][NextAccess]_vars


\* SpecPure: the credit calculator, the expiry test and the two recipient
\* normalizers, each applied once to an input drawn from a bounded set

\* a string of code points as the UTF-16 code units JavaScript indexes
RECURSIVE ToUtf16(_)
ToUtf16(cps) ==
  IF Len(cps) = 0 THEN <<>>
  ELSE IF Len(cps) = 1
  THEN IF cps[1] < 65536 THEN cps
       ELSE <<55296 + ((cps[1] - 65536) \div 1024), 56320 + ((cps[1] - 65536) % 1024)>>
  ELSE LET h == Len(cps) \div 2
       IN ToUtf16(SubSeq(cps, 1, h)) \o ToUtf16(SubSeq(cps, h + 1, Len(cps)))

MaxChars == 202

\* A, Hebrew alef, U+2600 (miscellaneous symbols), U+1F600 (emoticons)
SampleChars == {65, 1488, 9728, 128512}

SHello == <<72, 101, 108, 108, 111>>

MessageTexts ==
  {Rep(c, n) : c \in SampleChars, n \in 0..MaxChars}
    \cup {SHello, <<72, 1488, 9728, 128512>>, Rep(1488, 40)}

\* absent, a number, Ab, cal, Cal, CAL and cal followed by a space
CalculatorSenders ==
  {Undef, NumV, Str(SAb), Str(SCal), Str(SCalMixed), Str(<<67, 65, 76>>),
   Str(SCal \o <<32>>)}

CalculatorInputs ==
  {[route |-> "calculate", cps |-> cps, message |-> Str(ToUtf16(cps)), sender |-> sender] :
     cps \in MessageTexts, sender \in CalculatorSenders}
    \cup {[route |-> "calculate", cps |-> <<>>, message |-> Undef, sender |-> Str(SCal)]}

MaxDigits == 16

PhoneTexts ==
  {prefix \o Rep(53, n) \o suffix :
     prefix \in {<<>>, <<48>>, S972, <<43>> \o S972 \o <<45>>, <<48, 48>> \o S972},
     n \in 0..MaxDigits, suffix \in {<<>>, <<120>>}}
    \cup {SPhoneIntl, SPhoneDash, SPhoneLocal, SPhoneDashes, SPhoneShort}

ExpiryLedgers ==
  {EmptyStore(InitCredits, d) :
     d \in {NoDate, BadDate, IsoDate(0), IsoDate(1000), IsoDate(DayMs)}}

ExpiryInstants ==
  {0, DayMs - 1, DayMs, DayMs + 999, DayMs + 1000, 2 * DayMs - 1, 2 * DayMs}

InitPure ==
  /\ cfg \in {c \in Configs : c.apiKey}
  /\ slots = [r \in Slots |-> Idle]
  /\ last = NoResponse
  /\ ops = MaxOps - 1
  /\ windowHits = 0
  /\ \/ /\ req \in CalculatorInputs
        /\ store = EmptyStore(InitCredits, NoDate)
        /\ now = 0
     \/ /\ req \in {[route |-> "normalize", phone |-> p] : p \in PhoneTexts}
        /\ store = EmptyStore(InitCredits, NoDate)
        /\ now = 0
     \/ /\ req = [route |-> "is_expired"]
        /\ store \in ExpiryLedgers
        /\ now \in ExpiryInstants

Calculate ==
  /\ ops < MaxOps
  /\ req.route = "calculate"
  /\ ops' = ops + 1
  /\ last' = [kind |-> "calculate",
              weightedLength |->
                WeightedLength(IF Truthy(req.message) THEN req.message.s ELSE <<>>),
              cost |-> calculateCreditsForMessage(req.message, req.sender)]
  /\ UNCHANGED <<cfg, store, now, slots, windowHits, req>>

Normalize ==
  /\ ops < MaxOps
  /\ req.route = "normalize"
  /\ ops' = ops + 1
  /\ last' = [kind |-> "normalize", v |-> NormalizeRecipient(cfg, req.phone)]
  /\ UNCHANGED <<cfg, store, now, slots, windowHits, req>>

IsExpired ==
  /\ ops < MaxOps
  /\ req.route = "is_expired"
  /\ ops' = ops + 1
  /\ last' = [kind |-> "is_expired", v |-> computeIsExpired(readStore(store), now)]
  /\ UNCHANGED <<cfg, store, now, slots, windowHits, req>>

NextPure == Calculate \/ Normalize \/ IsExpired

SpecPure == InitPure /\ [][NextPure]_vars


\* SpecAdmin: the admin edits the blocked senders while clients send, a few
\* requests in any order

AdminOps == 3

\* Ab, Ab after a space, ISRACARD and Hi
AdminSenders == {Str(SAb), Str(<<32>> \o SAb), Str(SIsracardUpper), Str(SHi)}

AdminSingleBodies ==
  {[to |-> Str(SPhoneIntl), message |-> Str(SHi), sender |-> s] : s \in AdminSenders}

AdminBatchBodies ==
  {[sender |-> s, message |-> Str(SHi), recipients |-> Arr(<<SPhoneIntl>>)] :
     s \in AdminSenders}

\* no sender, Ab, ISRACARD, "a b" and a name of 21 letters
AdminSenderBodies ==
  {[sender |-> v] :
     v \in {Undef, Str(SAb), Str(SIsracardUpper), Str(<<97, 32, 98>>), Str(Rep(97, 21))}}

\* no list, the empty list, a list with a blank, a list naming ab twice, a
\* list of names the route drops
AdminSetBodies ==
  {[blockedSenders |-> v] :
     v \in {Undef, Arr(<<>>), Arr(<<SCalMixed, <<32>>, SAb>>),
            Arr(<<SAb, <<32>> \o ToLowerCase(SAb)>>), Arr(<<Rep(97, 21), <<97, 33>>>>)}}

InitAdmin ==
  /\ cfg \in {c \in Configs : c.apiKey}
  /\ store = EmptyStore(InitCredits, NoDate)
  /\ now = 0
  /\ slots = [r \in Slots |-> Idle]
  /\ last = NoResponse
  /\ ops = MaxOps - AdminOps
  /\ windowHits = 0
  /\ req = NoRequest

NextAdmin ==
  \/ Admitted(SingleSend(AdminSingleBodies))
  \/ \E r \in Slots, reply \in SingleReplies : SingleReply(r, reply)
  \/ Admitted(BatchSend(AdminBatchBodies))
  \/ \E r \in Slots : BatchReplySmseem(r)
  \/ \E r \in Slots, reply \in {"ok", "http", "network"} : BatchReplyMobivate(r, reply)
  \/ \E body \in AdminSetBodies : Admitted(BlockedSendersSet(body))
  \/ \E body \in AdminSenderBodies : Admitted(BlockedSendersAdd(body))
  \/ \E body \in AdminSenderBodies : Admitted(BlockedSendersRemove(body))

SpecAdmin == InitAdmin /\ [][NextAdmin]_vars


\* SpecRenew: one renewal of a ledger whose due date is the first, the
\* middle or one of the last days of a month of a common and of a leap year,
\* at 00:00 or at 23:00 UTC, on a server in any of the time zones

RenewYears == {2023, 2024}

RenewDates ==
  {[k |-> "iso", day |-> MakeDay(x[1], x[2], x[3]), ms |-> t] :
     x \in {z \in RenewYears \X (1..12) \X {1, 15, 28, 29, 30, 31} :
              z[3] <= MonthLengths(z[1])[z[2]]},
     t \in {0, 23 * HourMs}}

InitRenew ==
  /\ cfg \in {[c EXCEPT !.tz = z] : c \in {k \in Configs : k.apiKey}, z \in ZoneOffsets}
  /\ store \in {EmptyStore(InitCredits, d) : d \in RenewDates \cup {NoDate}}
  /\ now \in Instants
  /\ slots = [r \in Slots |-> Idle]
  /\ last = NoResponse
  /\ ops = MaxOps - 1
  /\ windowHits = 0
  /\ req = NoRequest

NextRenew == Admitted(RenewMonth)

SpecRenew == InitRenew /\ [][NextRenew]_vars


\* SpecBalance: one credits/set with any JSON value, on a fresh ledger or on
\* one that holds a due date, blocked senders, logs and a delivery

\* absent, null, true, false, 0, 4, 4.5, -0.5, -1, 1e999, "", " ", "12",
\* " 7 ", "-1", "abc", "Infinity", [], ["7"], ["1", "2"], {}
CreditsValues ==
  {Undef, Null, Bool(TRUE), Bool(FALSE), Num(0), Num(8), Num(9), Num(0 - 1), Num(0 - 2),
   NumInfinity, Str(<<>>), Str(<<32>>), Str(<<49, 50>>), Str(<<32, 55, 32>>), Str(<<45, 49>>),
   Str(<<97, 98, 99>>), Str(<<73, 110, 102, 105, 110, 105, 116, 121>>), Arr(<<>>),
   Arr(<<<<55>>>>), Arr(<<<<49>>, <<50>>>>), Obj}

BalanceLedgers ==
  {EmptyStore(c, NoDate) : c \in {0, InitCredits}}
    \cup {[EmptyStore(c, IsoDate(DayMs)) EXCEPT
             !.hasBlocked = TRUE, !.blockedSenders = <<ToLowerCase(SAb)>>,
             !.logs = <<HistoryLog(3, 2), HistoryLog(3, 3)>>,
             !.deliveries = <<HistoryDelivery(1)>>] : c \in {0, InitCredits}}

InitBalance ==
  /\ cfg \in {c \in Configs : c.apiKey}
  /\ store \in BalanceLedgers
  /\ now \in Instants
  /\ slots = [r \in Slots |-> Idle]
  /\ last = NoResponse
  /\ ops = MaxOps - 1
  /\ windowHits = 0
  /\ req = NoRequest

NextBalance == \E credits \in CreditsValues : Admitted(CreditsSet(credits))

SpecBalance == InitBalance /\ [][NextBalance]_vars


\* SpecLive: the requests of Spec, where every carrier call a batch awaits
\* is answered in the end: axios resolves with the carrier's response or
\* rejects, at the latest when its timeout of 30 s (SMSeem) or 20 s
\* (Mobivate) expires, and the event loop then resumes the handler
CarrierAnswers ==
  \A r \in Slots :
    /\ WF_vars(BatchReplySmseem(r))
    /\ WF_vars(\E reply \in {"ok", "http", "network"} : BatchReplyMobivate(r, reply))

SpecLive == Init /\ [][Next]_vars /\ CarrierAnswers


-----------------------------------------------------------------------------
(* Properties *)

\* A step in which a send request of the given kind is answered at a gate.
Refused(kind) == ops' = ops + 1 /\ slots' = slots /\ last'.kind = kind

\* A step in which request slot r passes every gate and calls the carrier.
Dispatched(kind, r) ==
  ops' = ops + 1 /\ slots[r] = Idle /\ slots'[r] # Idle /\ slots'[r].kind = kind

\* A step in which the handler in slot r answers after its last carrier call.
Completed(kind, r) == slots[r] # Idle /\ slots[r].kind = kind /\ slots'[r] = Idle

\* The gates as section 4 of the design states them, over the ledger and the
\* clock of the state in which the request is handled.
SubscriptionExpired ==
  /\ store.dueDate.k = "iso"
  /\ now > (store.dueDate.day * DayMs + store.dueDate.ms) + DayMs - 1

SenderBlocked(b) == Includes(BlockedList(cfg, store), ToLowerCase(b.sender.s))

CostRejects(b) ==
  LET L == WeightedLength(b.message.s) IN L = 0 \/ L > 200

StatedCost(b) ==
  BaseCredits(WeightedLength(b.message.s))
    + (IF b.sender.t = "str" /\ ToLowerCase(b.sender.s) = SCal THEN 3 ELSE 0)

StatedRecipients(b) == UniqueRecipients(cfg, b.recipients)

Dispatch == [status |-> 0, errors |-> {}]

StatedSingleVerdict(b) ==
  IF SubscriptionExpired THEN [status |-> 402, errors |-> {"expired"}]
  ELSE IF ~(isNonEmptyString(b.to) /\ PhoneRegexOk(cfg, b.to))
       THEN [status |-> 400, errors |-> {"phone_format"}]
  ELSE IF ~isNonEmptyString(b.message) THEN [status |-> 400, errors |-> {"missing_message"}]
  ELSE IF CostRejects(b)
       THEN [status |-> 400, errors |-> {"message_empty", "message_too_long"}]
  ELSE IF ~isNonEmptyString(b.sender) THEN [status |-> 400, errors |-> {"missing_sender"}]
  ELSE IF SenderBlocked(b) THEN [status |-> 400, errors |-> {"sender_blocked"}]
  ELSE IF NormalizeRecipient(cfg, b.to.s) = <<>>
       THEN [status |-> 400, errors |-> {"invalid_phone"}]
  ELSE Dispatch

StatedBatchVerdict(b) ==
  IF SubscriptionExpired THEN [status |-> 402, errors |-> {"expired"}]
  ELSE IF ~isNonEmptyString(b.sender) THEN [status |-> 400, errors |-> {"missing_sender"}]
  ELSE IF SenderBlocked(b) THEN [status |-> 400, errors |-> {"sender_blocked"}]
  ELSE IF ~isNonEmptyString(b.message) THEN [status |-> 400, errors |-> {"missing_message"}]
  ELSE IF CostRejects(b)
       THEN [status |-> 400, errors |-> {"message_empty", "message_too_long"}]
  ELSE IF StatedRecipients(b) = <<>>
       THEN [status |-> 400, errors |-> {"recipients_required", "no_valid_recipients"}]
  ELSE IF StatedCost(b) * Len(StatedRecipients(b)) > store.credits
       THEN [status |-> 402, errors |-> {"insufficient_credits"}]
  ELSE Dispatch

Answers(resp, verdict) == resp.status = verdict.status /\ resp.error \in verdict.errors

\* C1: in every reachable state the ledger's credits are non-negative.
C1_CreditsNonNegative == store.credits >= 0

\* C2: a batch send that the carrier answers leaves the balance at the snapshot
\* of the balance check minus cost times the number of accepted recipients.
C2_ChargesAcceptedOnly ==
  [][\A r \in Slots :
       Completed("batch", r) /\ last'.resp.status = 200
         => store'.credits = slots[r].credits - last'.resp.perMessage * last'.resp.success]_vars

\* C3: a batch whose totalNeeded exceeds the balance is answered 402 with
\* needed = totalNeeded and credits = the balance, no carrier call is made and
\* the ledger is unchanged.
C3_InsufficientRejected ==
  [][
      /\ \A r \in Slots :
          Dispatched("batch", r)
            => StatedCost(slots'[r].body) * Len(StatedRecipients(slots'[r].body))
                 <= store.credits
      /\ Refused("batch")
           /\ StatedBatchVerdict(last'.body).errors = {"insufficient_credits"}
           => /\ last'.resp.status = 402
              /\ last'.resp.error = "insufficient_credits"
              /\ last'.resp.needed
                   = StatedCost(last'.body) * Len(StatedRecipients(last'.body))
              /\ last'.resp.credits = store.credits
              /\ last'.calls = 0
              /\ store' = store]_vars

C3_Witness ==
  /\ last.kind = "batch"
  /\ last.resp.status = 402
  /\ last.resp.error = "insufficient_credits"
  /\ last.resp.needed = 5
  /\ last.resp.credits = 4
  /\ store.credits = 4

\* C4: with the subscription expired, a single or batch send is answered 402
\* whatever its body, calls no carrier and leaves the ledger unchanged.
C4_ExpiredRefusedFirst ==
  [][SubscriptionExpired
       => /\ \A r \in Slots : ~Dispatched("single", r) /\ ~Dispatched("batch", r)
          /\ Refused("single") \/ Refused("batch")
               => /\ last'.resp.status = 402
                  /\ last'.resp.error = "expired"
                  /\ last'.calls = 0
                  /\ store' = store]_vars

C4_Witness ==
  /\ last.kind = "batch"
  /\ last.resp.status = 402
  /\ last.resp.error = "expired"
  /\ last.body.sender = Undef
  /\ last.body.recipients = Undef
  /\ SubscriptionExpired

\* C5: a batch writes back the balance computed from the snapshot it read
\* before awaiting the carrier, whatever the ledger holds by then; so two
\* overlapping batches can both succeed with only one deduction kept.
C5_WritesFromSnapshot ==
  [][\A r \in Slots :
       Completed("batch", r) /\ last'.resp.status = 200
         => /\ store'.credits = slots[r].credits - last'.resp.totalUsed
            /\ last'.resp.credits = store'.credits]_vars

\* two batch_send entries in a row, each charging credits, the newer one
\* computed from the balance the older one started from
C5_Witness ==
  /\ Len(store.logs) >= 2
  /\ store.logs[1].type = "batch_send"
  /\ store.logs[2].type = "batch_send"
  /\ store.logs[1].totalCreditsUsed > 0
  /\ store.logs[2].totalCreditsUsed > 0
  /\ store.credits = store.logs[1].creditsAfter
  /\ store.logs[1].creditsAfter + store.logs[1].totalCreditsUsed
       = store.logs[2].creditsAfter + store.logs[2].totalCreditsUsed

\* C6: a carrier call that fails by timeout or network error is not charged.
NetworkFailures(results) ==
  Cardinality({i \in DOMAIN results : ~results[i].ok /\ results[i].error = "network"})

C6_NoChargeForFailedCalls ==
  [][\A r \in Slots :
       /\ Completed("single", r) \/ Completed("batch", r)
            => (last'.resp.status = 502 => store'.credits = store.credits)
       /\ Completed("batch", r) /\ last'.resp.status = 200
            /\ NetworkFailures(last'.resp.results) > 0
            => slots[r].credits - store'.credits
                 <= last'.resp.perMessage
                      * (last'.resp.attempted - NetworkFailures(last'.resp.results))]_vars

\* C7: a single send is answered by the earliest failing gate of the stated
\* order, and calls the carrier only if every gate passes.
C7_SingleGateOrder ==
  [][
      /\ \A r \in Slots :
          Dispatched("single", r) => StatedSingleVerdict(slots'[r].body) = Dispatch
      /\ Refused("single") /\ StatedSingleVerdict(last'.body) # Dispatch
           => Answers(last'.resp, StatedSingleVerdict(last'.body))]_vars

\* C8: a batch send is answered by the earliest failing gate of the stated
\* order, and calls the carrier only if every gate passes.
C8_BatchGateOrder ==
  [][
      /\ \A r \in Slots :
          Dispatched("batch", r) => StatedBatchVerdict(slots'[r].body) = Dispatch
      /\ Refused("batch") /\ StatedBatchVerdict(last'.body) # Dispatch
           => /\ Answers(last'.resp, StatedBatchVerdict(last'.body))
              /\ last'.calls = 0]_vars

\* a request failing three gates (blocked sender, no message, no recipients)
\* is answered by the first of them
C8_Witness ==
  /\ last.kind = "batch"
  /\ last.resp.error = "sender_blocked"
  /\ ~isNonEmptyString(last.body.message)
  /\ last.body.recipients = Undef
  /\ ~SubscriptionExpired

\* C9: a single send whose cost exceeds the balance makes no carrier call.
C9_SingleBalanceChecked ==
  \A r \in Slots :
    slots[r] # Idle /\ slots[r].kind = "single" => slots[r].msgCredits <= store.credits

\* C10: no step of a single send changes the ledger's credits, and a
\* successful one reports creditsUsed = cost.
C10_SingleKeepsCredits ==
  [][
      /\ Refused("single") => store'.credits = store.credits
      /\ \A r \in Slots :
           /\ Dispatched("single", r) => store'.credits = store.credits
           /\ Completed("single", r)
                => /\ store'.credits = store.credits
                   /\ last'.resp.status = 200
                        => last'.resp.creditsUsed = StatedCost(slots[r].body)]_vars

\* a single send answered ok:true with creditsUsed above the whole balance
C10_Witness ==
  /\ last.kind = "single"
  /\ last.resp.status = 200
  /\ last.resp.creditsUsed = 5
  /\ store.credits = 4

\* C11: a single send the carrier accepts prepends exactly one single_send
\* entry (sender, recipient, message id, cost, preview of at most 40
\* characters) to logs; a refused or failed single send leaves logs alone.
C11_SingleSendLogged ==
  [][
      /\ Refused("single") => store'.logs = store.logs
      /\ \A r \in Slots :
           Completed("single", r)
             => IF last'.resp.status = 200
                THEN /\ Len(store'.logs) >= 1
                     /\ Tail(store'.logs) = store.logs
                     /\ store'.logs[1].type = "single_send"
                     /\ store'.logs[1].sender = slots[r].body.sender.s
                     /\ store'.logs[1].recipient = slots[r].uniq[1]
                     /\ store'.logs[1].msgCredits = StatedCost(slots[r].body)
                     /\ Len(store'.logs[1].messagePreview) <= 40
                ELSE store'.logs = store.logs]_vars

\* C12: in the per-recipient (Mobivate) batch every unique recipient gets
\* exactly one carrier call: a failed call is recorded as that recipient's
\* error result, the next call goes to the next recipient, none is retried.
C12_OneCallPerRecipient ==
  [][\A r \in Slots :
       cfg.variant = "mobivate" /\ slots[r] # Idle /\ slots[r].kind = "batch"
         /\ slots'[r] # slots[r]
         => LET k == Len(slots[r].results) + 1
                res == IF slots'[r] = Idle THEN last'.resp.results ELSE slots'[r].results
            IN /\ slots[r].calls = k
               /\ Len(res) = k
               /\ SubSeq(res, 1, k - 1) = slots[r].results
               /\ res[k].recipient = slots[r].uniq[k]
               /\ ~res[k].ok => res[k].error \in {"http", "network"}
               /\ IF k < Len(slots[r].uniq)
                  THEN slots'[r] # Idle /\ slots'[r].calls = k + 1
                  ELSE slots'[r] = Idle /\ last'.calls = Len(slots[r].uniq)]_vars

\* a batch of two recipients whose first call failed and whose second was made
C12_Witness ==
  /\ cfg.variant = "mobivate"
  /\ last.kind = "batch"
  /\ last.resp.status = 200
  /\ last.calls = 2
  /\ Len(last.resp.results) = 2
  /\ ~last.resp.results[1].ok
  /\ last.resp.results[2].ok

\* C13: a batch has at most one carrier call outstanding: the calls issued
\* exceed the calls answered by exactly one while the handler is in flight.
C13_SequentialCalls ==
  \A r \in Slots :
    slots[r] # Idle /\ slots[r].kind = "batch"
      => slots[r].calls - Len(slots[r].results) = 1

\* the second call of a batch is outstanding, the first has been answered
C13_Witness ==
  \E r \in Slots :
    /\ slots[r] # Idle
    /\ slots[r].kind = "batch"
    /\ slots[r].calls = 2
    /\ Len(slots[r].results) = 1

\* C14: a dispatched batch in which at least one recipient succeeds is
\* answered ok:true with every failed recipient listed as a result of its own.
Listed(results, recipient) ==
  \E k \in DOMAIN results : results[k].recipient = recipient /\ ~results[k].ok

C14_PartialFailureIsSuccess ==
  [][\A r \in Slots :
       Completed("batch", r)
         => IF cfg.variant = "mobivate"
            THEN LET res == last'.resp.results
                 IN (\E k \in DOMAIN res : res[k].ok)
                      => /\ last'.resp.status = 200
                         /\ last'.resp.ok
                         /\ last'.resp.success >= 1
                         /\ \A k \in DOMAIN res : res[k].recipient = slots[r].uniq[k]
            ELSE last'.reply.k = "success" /\ last'.reply.sent >= 1
                   => /\ last'.resp.status = 200
                      /\ last'.resp.ok
                      /\ last'.resp.failedNumbers = last'.reply.failedNumbers
                      /\ \A k \in DOMAIN last'.reply.failedNumbers :
                           Listed(last'.resp.results, last'.reply.failedNumbers[k])]_vars

\* the carrier accepted one number of two and reported the other as failed
C14_Witness ==
  /\ last.kind = "batch"
  /\ cfg.variant = "smseem"
  /\ last.resp.status = 200
  /\ last.resp.success = 1
  /\ Len(last.resp.failedNumbers) = 1
  /\ Listed(last.resp.results, last.resp.failedNumbers[1])

\* C15: in every successful batch response and its batch_send log entry,
\* attempted is the number of unique recipients, results holds one entry per
\* attempted recipient, the ok:true entries number success, and
\* success + failed = attempted.
OkCount(results) == Cardinality({k \in DOMAIN results : results[k].ok})

FailedCount(resp) ==
  IF "failed" \in DOMAIN resp THEN resp.failed
  ELSE Len(resp.results) - OkCount(resp.results)

C15_CountsAgree ==
  [][\A r \in Slots :
       Completed("batch", r) /\ last'.resp.status = 200
         => /\ last'.resp.attempted = Len(slots[r].uniq)
            /\ Len(last'.resp.results) = last'.resp.attempted
            /\ OkCount(last'.resp.results) = last'.resp.success
            /\ last'.resp.success + FailedCount(last'.resp) = last'.resp.attempted
            /\ store'.logs[1].type = "batch_send"
            /\ store'.logs[1].count = last'.resp.attempted
            /\ store'.logs[1].success = last'.resp.success]_vars

\* C16: the recipients a batch dispatches are exactly the distinct non-null
\* canonical values of its inputs, each once, and totalNeeded (and the number
\* of recipients attempted) is cost times the number of those values.
CanonicalSet(b) ==
  LET list == RecipientList(b.recipients)
  IN {NormalizeRecipient(cfg, Trim(list[i])) : i \in DOMAIN list} \ {<<>>}

C16_DistinctCanonicalRecipients ==
  [][
      /\ \A r \in Slots :
           /\ Dispatched("batch", r)
                => LET u == slots'[r].uniq
                   IN /\ {u[i] : i \in DOMAIN u} = CanonicalSet(slots'[r].body)
                      /\ Len(u) = Cardinality(CanonicalSet(slots'[r].body))
           /\ Completed("batch", r) /\ last'.resp.status = 200
                => /\ last'.resp.attempted = Cardinality(CanonicalSet(slots[r].body))
                   /\ cfg.variant = "mobivate"
                        => /\ last'.calls = Cardinality(CanonicalSet(slots[r].body))
                           /\ last'.resp.totalUsed
                                = StatedCost(slots[r].body)
                                    * Cardinality(CanonicalSet(slots[r].body))
      /\ Refused("batch") /\ last'.resp.error = "insufficient_credits"
           => /\ last'.resp.recipients = Cardinality(CanonicalSet(last'.body))
              /\ last'.resp.needed
                   = StatedCost(last'.body) * Cardinality(CanonicalSet(last'.body))]_vars

\* four raw inputs, three of them one number and one invalid, dispatched as
\* a single recipient
C16_Witness ==
  \E r \in Slots :
    /\ slots[r] # Idle
    /\ slots[r].kind = "batch"
    /\ slots[r].body.recipients.t = "arr"
    /\ Len(slots[r].body.recipients.a) = 4
    /\ Len(slots[r].uniq) = 1

\* C17: logs never exceeds 1000 entries and deliveries 2000, newest first:
\* an append puts the new entry at index 0, shifts the others by one in
\* their order and, past the cap, drops only the last.
Prepended(old, new, cap) ==
  /\ Len(new) = (IF Len(old) < cap THEN Len(old) + 1 ELSE cap)
  /\ \A i \in 2..Len(new) : new[i] = old[i - 1]

Core(entry) == [f \in DOMAIN entry \ {"deliveryStatus", "deliveryTime"} |-> entry[f]]

Backfilled(old, new) ==
  /\ Len(new) = Len(old)
  /\ \A i \in DOMAIN old : Core(new[i]) = Core(old[i])

NewestFirst(list) == \A i \in 1..(Len(list) - 1) : list[i].time >= list[i + 1].time

C17_CappedNewestFirst ==
  [][
      /\ Len(store'.logs) <= LogCap
      /\ Len(store'.deliveries) <= DeliveryCap
      /\ NewestFirst(store'.logs)
      /\ NewestFirst(store'.deliveries)
      /\ store'.deliveries # store.deliveries
           => /\ Prepended(store.deliveries, store'.deliveries, DeliveryCap)
              /\ store'.deliveries[1].time = now
      /\ ~Backfilled(store.logs, store'.logs)
           => /\ Prepended(store.logs, store'.logs, LogCap)
              /\ store'.logs[1].time = now]_vars

\* a full log with an entry of this run at the head: the history's oldest
\* entry is gone and the one before it is now the last
C17_Witness ==
  /\ Len(store.logs) = LogCap
  /\ store.logs[1].type = "set_due_date"
  /\ store.logs[LogCap] = HistoryLog(LogCap, LogCap - 1)

\* C18: whatever requests overlap, a persisted log entry stays in logs, in
\* its place among the others, until the cap evicts it, and only a receipt's
\* backfill of deliveryStatus/deliveryTime ever changes it.
C18_LogEntriesPersist ==
  [][\E d \in {0, 1} :
       /\ Len(store'.logs) = (IF Len(store.logs) + d <= LogCap THEN Len(store.logs) + d
                               ELSE LogCap)
       /\ \A i \in DOMAIN store.logs :
            i + d <= LogCap
              => /\ Core(store'.logs[i + d]) = Core(store.logs[i])
                 /\ store'.logs[i + d] # store.logs[i]
                      => ops' = ops + 1 /\ last'.kind = "receipt"]_vars

\* the admin set the balance while a batch was awaiting the carrier; the
\* batch then wrote its stale balance and its log entry, and the admin's
\* entry is still there
C18_Witness ==
  /\ Len(store.logs) >= 2
  /\ store.logs[1].type = "batch_send"
  /\ store.logs[2].type = "set_credits"
  /\ store.logs[1].creditsAfter + store.logs[1].totalCreditsUsed
       # store.logs[2].creditsAfter

\* A step in which a request of the given kind is handled from start to end.
Handled(kind) == ops' = ops + 1 /\ slots' = slots /\ last'.kind = kind

Present(v) == v.t # "undef" /\ v.s # <<>>

\* C19: a receipt carrying messageId, status and recipient prepends exactly
\* one delivery with the upper-cased status; a receipt lacking any of them
\* leaves the ledger unchanged.
C19_ReceiptRecorded ==
  [][Handled("receipt")
       => LET b == last'.body
          IN IF Present(b.messageId) /\ Present(b.status) /\ Present(b.recipient)
             THEN /\ Prepended(store.deliveries, store'.deliveries, DeliveryCap)
                  /\ store'.deliveries[1].type = "delivery_receipt"
                  /\ store'.deliveries[1].messageId = b.messageId.s
                  /\ store'.deliveries[1].status = ToUpperCase(b.status.s)
                  /\ store'.deliveries[1].recipient = b.recipient.s
                  /\ Backfilled(store.logs, store'.logs)
             ELSE store' = store]_vars

\* the receipt {messageId: "m", status: "ok", recipient} recorded as "OK"
\* ahead of the earlier deliveries
C19_Witness ==
  /\ last.kind = "receipt"
  /\ Len(store.deliveries) >= 2
  /\ store.deliveries[1].status = <<79, 75>>
  /\ store.deliveries[1].messageId = last.body.messageId.s
  /\ store.deliveries[1].time = now
  /\ store.deliveries[2] = HistoryDelivery(1)

\* C20: the backfill of a recorded receipt stamps deliveryStatus and
\* deliveryTime on the most recent batch_send entry less than 24 hours old,
\* and on nothing if there is none; every other entry is left as it was.
Recent(i) == store.logs[i].type = "batch_send" /\ now - store.logs[i].time < DayMs

BackfillTarget(i) == Recent(i) /\ \A j \in 1..(i - 1) : ~Recent(j)

CompleteReceipts ==
  {b \in ReceiptBodiesAll : Present(b.messageId) /\ Present(b.status) /\ Present(b.recipient)}

Requested(routes) == ops' = ops + 1 /\ req'.route \in routes

Webhooks == {"receipt", "incoming", "click"}

\* C22: every request to the webhooks /api/sms/receipt, /api/sms/incoming
\* and /api/sms/click is answered with a bare 200, whatever its body and
\* however many webhook or send requests preceded it.
C22_WebhooksAcknowledged ==
  [][
    Requested(Webhooks) => last'.kind = req'.route /\ last'.resp = [status |-> 200]
  ]_vars

SendRoutes == {"single", "batch"}

AdminRoutes ==
  {"credits_set", "due_date_set", "renew_month", "blocked_set", "blocked_add",
   "blocked_remove", "logs", "deliveries"}

\* the credential pair the design gives the route's role
StatedPair(route) == IF route \in SendRoutes THEN cfg.office ELSE cfg.admin

\* the header is `Basic <base64>`, and the text it encodes is <user>:<pass>
\* of the pair, which is not a pair of empty credentials
Carries(hdr, pair) ==
  /\ hdr.t = "str"
  /\ StartsWith(hdr.s, SBasic \o <<32>>)
  /\ LET text == Base64Decode(SubSeq(hdr.s, Len(SBasic) + 2, Len(hdr.s)))
     IN text = pair.user \o <<58>> \o pair.pass /\ text # <<58>>

\* the request is answered 401 and neither touches the ledger nor is dispatched
Unauthorized ==
  /\ last'.kind = req'.route
  /\ last'.resp.status = 401
  /\ store' = store
  /\ slots' = slots

\* the limiter has counted its maximum and answers in the route's place
OverLimit == windowHits >= RateMax /\ req'.route \in SendRoutes \cup Webhooks

\* C23: a request to a role-gated route reaches the handler only if its
\* x-auth header is `Basic <base64>` of exactly <user>:<pass> of the role's
\* pair; a missing, mismatching or malformed header (wrong scheme, no colon,
\* empty credentials) is answered 401 and the handler does not run.
C23_OnlyCredentialPasses ==
  [][
    Requested(SendRoutes \cup AdminRoutes) /\ ~OverLimit
      /\ ~Carries(req'.xauth, StatedPair(req'.route))
      => Unauthorized
  ]_vars

\* the request that is being handled presented a credential the gate accepts
\* for one of the roles
Credentialed == \E role \in {"admin", "office"} : requireRoleAuth(cfg, role, req'.xauth)

\* C24: no request that lacks a valid role credential changes the persisted
\* ledger (credits, dueDate, blockedSenders, logs, deliveries): every route
\* that writes it is behind the access gate.
C24_LedgerBehindGate ==
  [][
    store' # store => Credentialed
  ]_vars

\* the pair of the role the route is not for
OtherPair(route) == IF route \in SendRoutes THEN cfg.admin ELSE cfg.office

\* C25: the roles are separated: when the admin and the office pair differ,
\* the admin-only routes (credits/set, due-date/set, renew-month,
\* blocked-senders set/add/remove, logs, deliveries) answer 401 to the office
\* credential and the send routes answer 401 to the admin credential.
C25_RolesSeparated ==
  [][
    Requested(SendRoutes \cup AdminRoutes) /\ ~OverLimit /\ cfg.admin # cfg.office
      /\ Carries(req'.xauth, OtherPair(req'.route))
      => Unauthorized
  ]_vars

\* the office credential was presented to /api/credits/set, which answered
\* 401 and left the balance alone
C25_Witness ==
  /\ req.route = "credits_set"
  /\ cfg.admin # cfg.office
  /\ Carries(req.xauth, cfg.office)
  /\ last.kind = "credits_set"
  /\ last.resp.status = 401
  /\ store.credits = InitCredits

\* the ladder of the design: the tiers end at these weighted lengths, and
\* tier k costs 2k credits
TierEnds == <<30, 50, 70, 90, 110, 130, 150, 170, 190, 200>>

StatedLadder(L) ==
  IF L = 0 THEN 0
  ELSE IF L > 200 THEN -1
  ELSE 2 * (CHOOSE k \in DOMAIN TierEnds :
              L <= TierEnds[k] /\ \A j \in 1..(k - 1) : L > TierEnds[j])

\* the sender is "cal" in some spelling of upper and lower case
IsCal(sender) ==
  sender.t = "str" /\ sender.s \in {<<c, a, l>> : c \in {99, 67}, a \in {97, 65}, l \in {108, 76}}

\* C26: the cost is a total function of the weighted length L: 0 for L = 0,
\* the ladder value for 1 <= L <= 200 (<=30 -> 2, <=50 -> 4, ..., <=190 -> 18,
\* <=200 -> 20), -1 for L > 200, and on [1, 200] it never decreases as L grows.
C26_LadderCost ==
  last.kind = "calculate" /\ req.sender.t \in {"str", "undef"} /\ ~IsCal(req.sender)
    => /\ ~last.cost.throws
       /\ last.cost.v = StatedLadder(last.weightedLength)
       /\ \A L2 \in 1..200 :
            1 <= last.weightedLength /\ last.weightedLength <= L2
              => last.cost.v <= BaseCredits(L2)

\* a message of weighted length 30 costs 2 credits, the end of the first tier
C26_Witness ==
  /\ last.kind = "calculate"
  /\ req.sender = Str(SAb)
  /\ last.weightedLength = 30
  /\ last.cost.v = 2

\* the weight the design gives a code point
InEmojiBlocks(cp) ==
  \/ cp \in 128512..128591
  \/ cp \in 127744..128511
  \/ cp \in 128640..128767
  \/ cp \in 127456..127487
  \/ cp \in 9728..9983
  \/ cp \in 9984..10175
  \/ cp \in 65024..65039
  \/ cp \in 129280..129535
  \/ cp \in 127000..127221

StatedWeight(cps) ==
  LET emoji == {i \in DOMAIN cps : InEmojiBlocks(cps[i])}
      ascii == {i \in DOMAIN cps : cps[i] <= 127}
  IN 3 * Cardinality(emoji) + Cardinality(ascii)
       + 2 * (Len(cps) - Cardinality(emoji) - Cardinality(ascii))

\* C27: the weighted length of a message is the sum of the weights of its
\* characters: 1 for an ASCII character, 3 for a code point of the listed
\* emoji blocks, 2 for any other character.
C27_WeightsPerCodePoint ==
  last.kind = "calculate" => last.weightedLength = StatedWeight(req.cps)

\* C28: where the message has a base cost c of 2..20, the sender "cal" in any
\* spelling of case costs c + 3 and any other sender c; a rejected message
\* (0 or -1) is never surcharged.
C28_CalSurcharge ==
  last.kind = "calculate" /\ req.sender.t \in {"str", "undef"}
    => LET c == StatedLadder(last.weightedLength)
       IN /\ ~last.cost.throws
          /\ last.cost.v = IF c \in {0, -1} THEN c
                           ELSE IF IsCal(req.sender) THEN c + 3 ELSE c

\* "Hello" from the sender "Cal" costs 2 + 3
C28_Witness ==
  /\ last.kind = "calculate"
  /\ req.cps = SHello
  /\ req.sender = Str(SCalMixed)
  /\ last.cost.v = 5

\* C29: isExpired is false when the due date is absent or no date, and else
\* true exactly when now > dueDate + 24h - 1ms: not yet at the last
\* millisecond of the due day, expired one millisecond later.
C29_ExpiredAfterDueDay ==
  last.kind = "is_expired"
    => last.v = (/\ store.dueDate.k = "iso"
                 /\ now > (store.dueDate.day * DayMs + store.dueDate.ms) + DayMs - 1)

\* at dueDate + 24h - 1ms the ledger is still valid
C29_Witness ==
  /\ last.kind = "is_expired"
  /\ store.dueDate = IsoDate(1000)
  /\ now = DayMs + 999
  /\ last.v = FALSE

AllDigits(s) == \A i \in DOMAIN s : s[i] \in 48..57

\* C30: normalization never yields a partial or garbage value: the result is
\* null or, with normalizeMsisdn, 8 to 15 digits and, with
\* convertToIsraeliFormat, 0 and the 9 digits after the prefix 972 or the
\* digits of an input in local format, 0 and 8 or 9 digits.
C30_CanonicalOrNull ==
  last.kind = "normalize"
    => LET digits == SelectSeq(req.phone, LAMBDA c : c \in 48..57)
       IN \/ last.v = <<>>
          \/ /\ cfg.variant = "mobivate"
             /\ last.v = digits
             /\ Len(last.v) \in 8..15
          \/ /\ cfg.variant = "smseem"
             /\ \/ /\ Len(digits) = 12
                   /\ SubSeq(digits, 1, 3) = <<57, 55, 50>>
                   /\ last.v = <<48>> \o SubSeq(digits, 4, 12)
                \/ /\ last.v = digits
                   /\ Len(digits) \in {9, 10}
                   /\ digits[1] = 48


\* C31: a sender name the admin has added stays in the blocked list until a
\* remove or a set takes it out, and while a name is in the list every single
\* or batch send whose sender equals it ignoring case is refused with 400
\* (402 when the subscription is expired) and calls no carrier.
ListEdited ==
  (Handled("blocked_remove") \/ Handled("blocked_set")) /\ last'.resp.status = 200

\* the names in force: the stored list, or the name blocked by default
InForce(st) ==
  IF cfg.variant = "smseem" /\ st.hasBlocked THEN st.blockedSenders ELSE <<SIsracard>>

EqualsBlocked(b, st) ==
  isNonEmptyString(b.sender) /\ Includes(InForce(st), ToLowerCase(b.sender.s))

C31_BlockedSenderRejected ==
  [][
      /\ Handled("blocked_add") /\ last'.resp.status = 200
           => Includes(InForce(store'), ToLowerCase(Trim(last'.body.sender.s)))
      /\ \A i \in DOMAIN InForce(store) :
           ~ListEdited => Includes(InForce(store'), InForce(store)[i])
      /\ \A r \in Slots :
           /\ Dispatched("single", r) => ~EqualsBlocked(slots'[r].body, store)
           /\ Dispatched("batch", r) => ~EqualsBlocked(slots'[r].body, store)
      /\ (Refused("single") \/ Refused("batch")) /\ EqualsBlocked(last'.body, store)
           => /\ last'.resp.status = IF SubscriptionExpired THEN 402 ELSE 400
              /\ last'.calls = 0]_vars

\* "ab" was added to the list and a batch from sender "Ab" is then refused
C31_Witness ==
  /\ cfg.variant = "smseem"
  /\ Len(store.logs) >= 1
  /\ store.logs[1].type = "add_blocked_sender"
  /\ store.logs[1].sender = ToLowerCase(SAb)
  /\ last.kind = "batch"
  /\ last.body.sender = Str(SAb)
  /\ last.resp.status = 400
  /\ last.resp.error = "sender_blocked"
  /\ last.calls = 0

\* C32: the stored blocked senders form a set of valid identifiers: every
\* element is lower-case, made of a-z, 0-9, _ and -, 1 to 20 long, and no
\* element occurs twice.
ValidIdentifier(s) ==
  /\ Len(s) \in 1..20
  /\ \A k \in DOMAIN s : s[k] \in (97..122) \cup (48..57) \cup {95, 45}

C32_BlockedSendersValidSet ==
  store.hasBlocked
    => /\ \A i \in DOMAIN store.blockedSenders : ValidIdentifier(store.blockedSenders[i])
       /\ \A i, j \in DOMAIN store.blockedSenders :
            store.blockedSenders[i] = store.blockedSenders[j] => i = j

\* C33: renew-month sets dueDate to base plus one calendar month, base being
\* the stored dueDate or the current time when none is stored: the same day of
\* the next month at the same time of day, or that month's last day when it
\* has no such day; the new dueDate is later than base and is the one answered.
StatedMonthLength(y, m) ==
  IF m = 2 THEN (IF y % 4 = 0 /\ (y % 100 # 0 \/ y % 400 = 0) THEN 29 ELSE 28)
  ELSE IF m \in {4, 6, 9, 11} THEN 30 ELSE 31

StatedNextMonth(date) ==
  LET c == DateFromDay(date.day)
      y == IF c.m = 12 THEN c.y + 1 ELSE c.y
      m == IF c.m = 12 THEN 1 ELSE c.m + 1
      d == IF c.d > StatedMonthLength(y, m) THEN StatedMonthLength(y, m) ELSE c.d
  IN [date EXCEPT !.day = MakeDay(y, m, d)]

RenewBase == IF store.dueDate.k = "null" THEN IsoDate(now) ELSE store.dueDate

C33_RenewAddsCalendarMonth ==
  [][Handled("renew_month") /\ last'.resp.status = 200
       => /\ store'.dueDate = StatedNextMonth(RenewBase)
          /\ last'.resp.dueDate = store'.dueDate
          /\ \/ store'.dueDate.day > RenewBase.day
             \/ store'.dueDate.day = RenewBase.day /\ store'.dueDate.ms > RenewBase.ms]_vars

\* C34: credits/set with a finite non-negative number n sets the balance to
\* floor(n), prepends one set_credits entry whose creditsAfter is the new
\* balance and keeps dueDate, blockedSenders and deliveries; with a value
\* that is absent, no number, negative or not finite it answers 400 and
\* leaves the ledger as it was.
\* a number, or a string that spells one: twice its value, or -1 if the
\* value is none of these, is negative or is not finite
IsNumeral(s) == s # <<>> /\ \A i \in DOMAIN s : IsDigit(s[i])

StatedCredits(v) ==
  IF v.t = "num" /\ v.finite /\ v.n2 >= 0 THEN v.n2
  ELSE IF v.t = "str" /\ IsNumeral(Trim(v.s)) THEN 2 * DecimalValue(Trim(v.s))
  ELSE 0 - 1

C34_CreditsSetValidated ==
  [][Handled("credits_set")
       => IF StatedCredits(last'.body) >= 0
          THEN /\ last'.resp.status = 200
               /\ store'.credits = StatedCredits(last'.body) \div 2
               /\ last'.resp.credits = store'.credits
               /\ Len(store'.logs) = Len(store.logs) + 1
               /\ store'.logs[1].type = "set_credits"
               /\ store'.logs[1].creditsAfter = store'.credits
               /\ Tail(store'.logs) = store.logs
               /\ store'.dueDate = store.dueDate
               /\ store'.hasBlocked = store.hasBlocked
               /\ store'.blockedSenders = store.blockedSenders
               /\ store'.deliveries = store.deliveries
          ELSE /\ last'.resp.status = 400
               /\ store' = store]_vars

\* C35: no carrier call carries a blocked originator: when a single or batch
\* send passes its gates, the originator it transmits, lower-cased, is not in
\* the blocked list the request was checked against.
C35_NoBlockedOriginator ==
  [][\A r \in Slots :
       Dispatched("single", r) \/ Dispatched("batch", r)
         => ~Includes(InForce(store), ToLowerCase(slots'[r].originator))]_vars

\* C36: as long as no credits/set has been made, the credits' worth of the
\* messages the carrier has accepted, summed over all batch sends (cost times
\* accepted recipients), does not exceed the balance the ledger started with.
AcceptedWorth(entry) ==
  IF entry.type # "batch_send" THEN 0
  ELSE entry.msgCredits * (IF entry.success > entry.count THEN entry.count ELSE entry.success)

RECURSIVE TotalAccepted(_)
TotalAccepted(logs) ==
  IF logs = <<>> THEN 0 ELSE AcceptedWorth(Head(logs)) + TotalAccepted(Tail(logs))

C36_AcceptedWithinBalance ==
  (\A i \in DOMAIN store.logs : store.logs[i].type # "set_credits")
    => TotalAccepted(store.logs) <= InitCredits

\* C37: a single or batch send answered with an error leaves the ledger as
\* it was, whether a gate refuses it or the carrier call fails; so does a
\* carrier answer after which the handler goes on to its next call.
AnsweredSend ==
  \/ Refused("single") \/ Refused("batch")
  \/ \E r \in Slots : Completed("single", r) \/ Completed("batch", r)

C37_ErrorsKeepLedger ==
  [][
      /\ AnsweredSend /\ "ok" \notin DOMAIN last'.resp
           => /\ last'.resp.status # 200
              /\ store' = store
      /\ AnsweredSend /\ "ok" \in DOMAIN last'.resp => last'.resp.status = 200
      /\ (\E r \in Slots : slots[r] # Idle /\ slots'[r] # Idle /\ slots'[r] # slots[r])
           => store' = store]_vars

\* a batch the carrier answered with an error: one call made, the gateway
\* error answered, nothing logged or charged
C37_Witness ==
  /\ cfg.variant = "smseem"
  /\ last.kind = "batch"
  /\ last.calls = 1
  /\ last.resp.status = 400
  /\ last.resp.error = "provider_error"
  /\ store.credits = 9
  /\ store.logs = <<>>

\* C38: when a batch send succeeds, the credits it answers, the creditsAfter
\* of the batch_send entry it logs and the balance of the ledger that holds
\* the new entry are equal, and the entry is the only change to the log:
\* nothing is written between the deduction and the log entry.
C38_BalanceLoggedAtomically ==
  [][\A r \in Slots :
       Completed("batch", r) /\ last'.resp.status = 200
         => /\ store'.logs[1].type = "batch_send"
            /\ store'.logs[1].creditsAfter = last'.resp.credits
            /\ store'.logs[1].creditsAfter = store'.credits
            /\ store'.credits = slots[r].credits - store'.logs[1].totalCreditsUsed
            /\ Tail(store'.logs) = store.logs
            /\ store'.deliveries = store.deliveries]_vars

\* a batch has succeeded while another is still awaiting the carrier: the
\* entry, the answer and the ledger agree
C38_Witness ==
  /\ last.kind = "batch"
  /\ last.resp.status = 200
  /\ last.resp.totalUsed > 0
  /\ Len(store.logs) = 1
  /\ store.logs[1].type = "batch_send"
  /\ store.logs[1].creditsAfter = store.credits
  /\ last.resp.credits = store.credits
  /\ \E r \in Slots : slots[r] # Idle /\ slots[r].kind = "batch"

\* C39: a batch send that has called the carrier is answered in the end,
\* given that each carrier call returns or times out; the answer is the one
\* response to that request, and by then the handler has made at least one
\* and at most one carrier call for each unique recipient.
C39_BatchAnswered ==
  /\ \A r \in Slots : (slots[r] # Idle /\ slots[r].kind = "batch") ~> (slots[r] = Idle)
  /\ [][\A r \in Slots :
          /\ slots[r] # Idle /\ slots[r].kind = "batch" /\ slots'[r] # slots[r]
               => /\ slots'[r] = Idle \/ slots'[r].calls = slots[r].calls + 1
                  /\ slots'[r] # Idle => slots'[r].calls <= Len(slots[r].uniq)
          /\ Completed("batch", r)
               => /\ last'.kind = "batch"
                  /\ last'.body = slots[r].body
                  /\ last'.calls = slots[r].calls
                  /\ last'.calls \in 1..Len(slots[r].uniq)]_vars

\* a batch of two recipients answered after two carrier calls, the second
\* of which failed
C39_Witness ==
  /\ cfg.variant = "mobivate"
  /\ last.kind = "batch"
  /\ last.resp.status = 200
  /\ last.calls = 2
  /\ Len(last.resp.results) = 2
  /\ last.resp.results[1].ok
  /\ ~last.resp.results[2].ok
  /\ \A r \in Slots : slots[r] = Idle

====
